---------------------------- MODULE Spec2Model ----------------------------
(***************************************************************************)
(* The report scripts of qec-frameworks as a state machine.                *)
(*                                                                         *)
(* Four Python files print reports: expanded_qec_comparison.py,            *)
(* qec_framework_comparison.py, loom_getting_started.py and                *)
(* deltakit_getting_started.py.  The control state `pc` is the source line *)
(* of the next statement of the running file; `out` is the output stream,  *)
(* one element per line written.  An element [at |-> n, s |-> t] is a line *)
(* written by the print call at source line n.  t is the text of the line  *)
(* when the text is computed from data (an f-string over loop variables or *)
(* external values); a print of a literal has t = "" and its text is the   *)
(* literal at line n, except for the one literal whose content is modelled *)
(* (the scenario guide, ScenarioGuide below).                              *)
(***************************************************************************)
EXTENDS Integers, Sequences, FiniteSets, TLC

(***************************************************************************)
(* Bounds of the model.                                                    *)
(***************************************************************************)
\* how many times an entry function is invoked in one process
MaxRuns == 2

(***************************************************************************)
(* The literal data of the sources.                                        *)
(***************************************************************************)
\* expanded_qec_comparison.py:16-122, the `frameworks` dict in insertion order
Profiles ==
  << [name |-> "Loom",
      details |->
        ("Developer" :> "Entropica Labs (Singapore)" @@
         "Type" :> "Full-stack QEC toolkit" @@
         "Primary Focus" :> "Visual design & lattice surgery" @@
         "Language" :> "Python" @@
         "License" :> "Open-source" @@
         "Launch Date" :> "2024-2025" @@
         "Unique Strength" :> "Entwine visual GUI for lattice surgery" @@
         "Integration" :> "Stim, OpenQASM, PennyLane/Catalyst" @@
         "Best For" :> "Research, visual prototyping, education" @@
         "Installation" :> "pip/poetry" @@
         "Documentation" :> "7/10 - Good API docs, needs more tutorials" @@
         "Community" :> "Growing, QEC Challenge 2025" @@
         "Backend/Layer" :> "High-level design layer")],
     [name |-> "Deltakit",
      details |->
        ("Developer" :> "Riverlane (UK)" @@
         "Type" :> "SDK + Learning platform" @@
         "Primary Focus" :> "Learning & deployment pipeline" @@
         "Language" :> "Python" @@
         "License" :> "Open-source + proprietary cloud" @@
         "Launch Date" :> "September 2025" @@
         "Unique Strength" :> "Comprehensive interactive textbook" @@
         "Integration" :> "Deltaflow hardware, cloud decoders" @@
         "Best For" :> "Learning, production deployment" @@
         "Installation" :> "pip + cloud token" @@
         "Documentation" :> "9/10 - Excellent textbook" @@
         "Community" :> "Backed by established QEC leader" @@
         "Backend/Layer" :> "High-level with hardware focus")],
     [name |-> "Stim",
      details |->
        ("Developer" :> "Craig Gidney (Google)" @@
         "Type" :> "Stabilizer circuit simulator" @@
         "Primary Focus" :> "High-performance QEC simulation" @@
         "Language" :> "C++ with Python bindings" @@
         "License" :> "Open-source (Apache 2.0)" @@
         "Launch Date" :> "2021" @@
         "Unique Strength" :> "Extreme speed (198 papers in 2024)" @@
         "Integration" :> "Used by Loom, Deltakit, PyMatching" @@
         "Best For" :> "Fast simulation, research backbone" @@
         "Installation" :> "pip install stim" @@
         "Documentation" :> "8/10 - Good technical docs" @@
         "Community" :> "Industry standard, widely adopted" @@
         "Backend/Layer" :> "Low-level simulation engine")],
     [name |-> "PyMatching",
      details |->
        ("Developer" :> "Oscar Higgott & Craig Gidney" @@
         "Type" :> "Decoder library" @@
         "Primary Focus" :> "Minimum-weight perfect matching" @@
         "Language" :> "Python/C++" @@
         "License" :> "Open-source" @@
         "Launch Date" :> "2021 (v2 in 2023)" @@
         "Unique Strength" :> "100-1000x faster than v1" @@
         "Integration" :> "Designed for Stim, used with Sinter" @@
         "Best For" :> "Fast decoding of surface codes" @@
         "Installation" :> "pip install pymatching" @@
         "Documentation" :> "8/10 - Clear API docs" @@
         "Community" :> "Standard decoder in research" @@
         "Backend/Layer" :> "Decoder layer")],
     [name |-> "qLDPC",
      details |->
        ("Developer" :> "Infleqtion & JPMorgan Chase" @@
         "Type" :> "LDPC code library" @@
         "Primary Focus" :> "Hardware-efficient codes" @@
         "Language" :> "Python" @@
         "License" :> "Open-source" @@
         "Launch Date" :> "May 2025" @@
         "Unique Strength" :> "10-100x qubit reduction" @@
         "Integration" :> "Neutral atom hardware" @@
         "Best For" :> "Hardware-aware optimization" @@
         "Installation" :> "GitHub (qLDPCOrg/qldpc)" @@
         "Documentation" :> "New, documentation growing" @@
         "Community" :> "New, backed by major players" @@
         "Backend/Layer" :> "Code design layer")],
     [name |-> "MQT QECC",
      details |->
        ("Developer" :> "TU Munich" @@
         "Type" :> "QEC toolkit" @@
         "Primary Focus" :> "Design automation" @@
         "Language" :> "Python/C++" @@
         "License" :> "Open-source" @@
         "Launch Date" :> "Ongoing development" @@
         "Unique Strength" :> "Full stack coverage" @@
         "Integration" :> "Part of Munich Quantum Toolkit" @@
         "Best For" :> "Research, compilation" @@
         "Installation" :> "pip install mqt.qecc" @@
         "Documentation" :> "Good, academic focus" @@
         "Community" :> "Academic community" @@
         "Backend/Layer" :> "Multi-layer toolkit")],
     [name |-> "Qiskit",
      details |->
        ("Developer" :> "IBM" @@
         "Type" :> "General quantum framework" @@
         "Primary Focus" :> "Full quantum computing stack" @@
         "Language" :> "Python" @@
         "License" :> "Open-source (Apache 2.0)" @@
         "Launch Date" :> "2017" @@
         "Unique Strength" :> "Industry standard, IBM hardware" @@
         "Integration" :> "IBM Quantum, Aer simulator" @@
         "Best For" :> "IBM ecosystem, general QC" @@
         "Installation" :> "pip install qiskit" @@
         "Documentation" :> "10/10 - Comprehensive" @@
         "Community" :> "Largest quantum community" @@
         "Backend/Layer" :> "Full stack platform")] >>

FeatureColumn ==
  << "License",
     "Primary Focus",
     "Installation",
     "Visual Design Tool",
     "Code Types Supported",
     "Backend Support",
     "Lattice Surgery",
     "Cloud Integration",
     "Documentation Quality",
     "Learning Resources",
     "Hardware Integration",
     "Community/Maturity",
     "Company Focus",
     "Best For" >>

LoomColumn ==
  << "Open-source",
     "QEC circuit design & lattice surgery",
     "pip/poetry, local install",
     "Yes - Entwine (browser-based)",
     "Surface, Repetition, Steane, Shor, 5-qubit",
     "Stim, OpenQASM 3.0, PennyLane",
     "Yes - Visual and programmatic",
     "No - Fully local",
     "Good - API docs, tutorials",
     "Entwine GUI, examples, blog posts",
     "Hardware-agnostic, research focus",
     "Newer, growing (Singapore-based)",
     "Software tools for FTQC",
     "Research, prototyping, education, visual design" >>

DeltakitColumn ==
  << "Open-source SDK + proprietary cloud",
     "QEC learning & deployment pipeline",
     "pip install + cloud token",
     "No - Code-based only",
     "Repetition, Surface codes",
     "Python SDK, cloud simulators",
     "No - Focus on decoding",
     "Yes - Proprietary decoders",
     "Excellent - Comprehensive textbook",
     "Full textbook, interactive tutorials",
     "Deltaflow hardware stack integration",
     "Newer, backed by Riverlane (UK-based)",
     "Real-time QEC hardware + software",
     "Learning QEC, production deployment, hardware" >>

ScenarioGuide ==
  << << "blank", "", "" >>,
     << "scenario", "SCENARIO 1", "\"I want to learn QEC from scratch\"" >>,
     << "rule", "", "" >>,
     << "heading", "BEST CHOICE", "Deltakit" >>,
     << "bullet", "", "Structured textbook from basics to advanced" >>,
     << "bullet", "", "Interactive exercises" >>,
     << "bullet", "", "Clear learning path" >>,
     << "blank", "", "" >>,
     << "heading", "ALSO CONSIDER", "Qiskit tutorials" >>,
     << "bullet", "", "Extensive documentation" >>,
     << "bullet", "", "Large community support" >>,
     << "blank", "", "" >>,
     << "scenario", "SCENARIO 2", "\"I need to design and visualize lattice surgery\"" >>,
     << "rule", "", "" >>,
     << "heading", "BEST CHOICE", "Loom (Entwine)" >>,
     << "bullet", "", "Only platform with visual GUI" >>,
     << "bullet", "", "Drag-and-drop interface" >>,
     << "bullet", "", "Exports to code" >>,
     << "blank", "", "" >>,
     << "heading", "NO ALTERNATIVE", "This is Loom's unique feature" >>,
     << "blank", "", "" >>,
     << "scenario", "SCENARIO 3", "\"I need maximum simulation performance\"" >>,
     << "rule", "", "" >>,
     << "heading", "BEST CHOICE", "Stim directly" >>,
     << "bullet", "", "Fastest available (industry standard)" >>,
     << "bullet", "", "Can simulate huge circuits" >>,
     << "bullet", "", "Used in 198 papers (2024)" >>,
     << "blank", "", "" >>,
     << "heading", "HIGH-LEVEL WRAPPER", "Use Loom or Deltakit" >>,
     << "bullet", "", "They use Stim backend anyway" >>,
     << "bullet", "", "Add convenience features" >>,
     << "blank", "", "" >>,
     << "scenario", "SCENARIO 4", "\"I need to decode surface codes fast\"" >>,
     << "rule", "", "" >>,
     << "heading", "BEST CHOICE", "PyMatching" >>,
     << "bullet", "", "Industry standard decoder" >>,
     << "bullet", "", "100-1000x faster than alternatives" >>,
     << "bullet", "", "Works seamlessly with Stim" >>,
     << "blank", "", "" >>,
     << "heading", "CLOUD ALTERNATIVE", "Deltakit" >>,
     << "bullet", "", "Access to proprietary decoders" >>,
     << "bullet", "", "May be faster for some cases" >>,
     << "blank", "", "" >>,
     << "scenario", "SCENARIO 5", "\"I want hardware-efficient codes\"" >>,
     << "rule", "", "" >>,
     << "heading", "BEST CHOICE", "qLDPC" >>,
     << "bullet", "", "10-100x qubit reduction" >>,
     << "bullet", "", "Optimized for neutral atoms" >>,
     << "bullet", "", "Cutting-edge research" >>,
     << "blank", "", "" >>,
     << "scenario", "SCENARIO 6", "\"I'm preparing for production deployment\"" >>,
     << "rule", "", "" >>,
     << "heading", "BEST CHOICE", "Deltakit" >>,
     << "bullet", "", "Designed for Deltaflow hardware" >>,
     << "bullet", "", "Production-ready workflows" >>,
     << "bullet", "", "Cloud decoder integration" >>,
     << "blank", "", "" >>,
     << "heading", "ALSO CONSIDER", "Qiskit" >>,
     << "bullet", "", "If using IBM hardware" >>,
     << "bullet", "", "Enterprise support available" >>,
     << "blank", "", "" >>,
     << "scenario", "SCENARIO 7", "\"I'm doing academic QEC research\"" >>,
     << "rule", "", "" >>,
     << "heading", "STACK APPROACH", "Use multiple tools" >>,
     << "bullet", "", "Stim + PyMatching: Core simulation/decoding" >>,
     << "bullet", "", "Loom: Visual design when needed" >>,
     << "bullet", "", "qLDPC: Explore new code families" >>,
     << "bullet", "", "MQT: Compilation research" >>,
     << "blank", "", "" >>,
     << "scenario", "SCENARIO 8", "\"I'm building custom QEC solutions\"" >>,
     << "rule", "", "" >>,
     << "heading", "TOOLKIT APPROACH", "" >>,
     << "bullet", "", "Stim: Simulation engine" >>,
     << "bullet", "", "PyMatching: Decoder" >>,
     << "bullet", "", "Custom high-level logic" >>,
     << "bullet", "", "Or fork/extend existing platforms" >>,
     << "blank", "", "" >> >>

\* expanded_qec_comparison.py:125, the category list of the loop
Categories == << "Type", "Primary Focus", "Unique Strength", "Best For", "Backend/Layer" >>

\* column widths of the format specs
NameWidth == 15
FeatureWidth == 30
ValueWidth == 40
\* lengths of the rules
RuleWidth == 100

(***************************************************************************)
(* Strings.  TLC has Len and \o on strings; a string is taken apart        *)
(* through its spelling.                                                   *)
(***************************************************************************)
\* str * int
RECURSIVE Rep(_, _)
Rep(c, n) == IF n <= 0 THEN "" ELSE c \o Rep(c, n - 1)

\* Ljust with a fault: a str longer than the width gives way to a filler of
\* the width
LjustClipped(s, w) == IF Len(s) > w THEN Rep("#", w) ELSE s \o Rep(" ", w - Len(s))

\* format spec `:w` / `:<w` on a str: left-justified, space-padded, never cut
Ljust(s, w) == s \o Rep(" ", w - Len(s))

\* the characters of the category names
Spell ==
  "Type" :> << "T", "y", "p", "e" >> @@
  "Primary Focus" :> << "P", "r", "i", "m", "a", "r", "y", " ", "F", "o", "c", "u", "s" >> @@
  "Unique Strength" :> << "U", "n", "i", "q", "u", "e", " ", "S", "t", "r", "e", "n", "g", "t", "h" >> @@
  "Best For" :> << "B", "e", "s", "t", " ", "F", "o", "r" >> @@
  "Backend/Layer" :> << "B", "a", "c", "k", "e", "n", "d", "/", "L", "a", "y", "e", "r" >>

RECURSIVE Join(_)
Join(cs) == IF cs = << >> THEN "" ELSE Head(cs) \o Join(Tail(cs))

LowerToUpper ==
  "a" :> "A" @@ "b" :> "B" @@ "c" :> "C" @@ "d" :> "D" @@ "e" :> "E" @@ "f" :> "F" @@
  "g" :> "G" @@ "h" :> "H" @@ "i" :> "I" @@ "j" :> "J" @@ "k" :> "K" @@ "l" :> "L" @@
  "m" :> "M" @@ "n" :> "N" @@ "o" :> "O" @@ "p" :> "P" @@ "q" :> "Q" @@ "r" :> "R" @@
  "s" :> "S" @@ "t" :> "T" @@ "u" :> "U" @@ "v" :> "V" @@ "w" :> "W" @@ "x" :> "X" @@
  "y" :> "Y" @@ "z" :> "Z"

\* Upper with a fault: the category name is written as it is
UpperForgotten(s) == Join(Spell[s])

\* str.upper()
Upper(s) ==
  Join([k \in 1..Len(Spell[s]) |->
          IF Spell[s][k] \in DOMAIN LowerToUpper THEN LowerToUpper[Spell[s][k]]
          ELSE Spell[s][k]])

(***************************************************************************)
(* The statements of the four files, by source line.  A body is the        *)
(* sequence of the statements of one function (or of the module level) in  *)
(* textual order; loops, handlers and calls are resolved by the actions.   *)
(***************************************************************************)
\* ComprehensiveBody with a fault: the title block stops after the title
ComprehensiveBodyShortTitle ==
  << 11, 12, 16, 125, 126, 127, 128, 129, 130, 132, 133, 134, 135,
     163, 164, 165, 166, 187, 188, 189, 190, 213, 214, 215, 216,
     294, 295, 296, 297, 341, 342, 343, 344, 367 >>

\* expanded_qec_comparison.py: print_comprehensive_comparison
ComprehensiveBody ==
  << 11, 12, 13, 14, 16, 125, 126, 127, 128, 129, 130, 132, 133, 134, 135,
     163, 164, 165, 166, 187, 188, 189, 190, 213, 214, 215, 216,
     294, 295, 296, 297, 341, 342, 343, 344, 367 >>

\* LoomExampleBody with a fault: the try block is left for the handler before
\* the key features
LoomExampleBodyInterrupted ==
  << 23, 24, 25, 32, 33, 34, 35, 51, 52, 53, 54, 68, 69, 70, 71, 72, 74, 75,
     93, 94, 95, 106, 107, 109 >>

\* qec_framework_comparison.py: loom_example (the handler 105-107 apart)
LoomExampleBody ==
  << 23, 24, 25, 32, 33, 34, 35, 51, 52, 53, 54, 68, 69, 70, 71, 72, 74, 75,
     93, 94, 95, 97, 98, 99, 100, 101, 102, 103, 109 >>

\* qec_framework_comparison.py: deltakit_example (the handler 224-226 apart)
DeltakitExampleBody ==
  << 126, 127, 128, 135, 136, 146, 147, 148, 149, 150, 171, 172, 192, 193,
     194, 195, 196, 207, 208, 209, 210, 211, 212, 213, 215, 216, 217, 218,
     219, 220, 221, 222, 228 >>

\* qec_framework_comparison.py: print_comparison_table
TableBody == << 237, 238, 239, 241, 293, 294, 296, 297, 298, 299, 301 >>

\* qec_framework_comparison.py: print_detailed_comparison
DetailedBody ==
  << 311, 312, 313, 315, 316, 317, 318, 319, 320, 321, 322, 324, 325, 326,
     327, 328, 329, 330, 332, 333, 334, 335, 336, 337, 338, 339, 340, 342,
     343, 344, 345, 346, 347, 348, 350, 351, 352, 353, 354, 355, 356, 357,
     359, 360, 361, 362, 363, 364, 366, 367, 368, 369, 370, 371, 372, 373,
     374, 375, 377, 378, 379, 380, 381, 382, 383, 384, 386, 387, 388, 389,
     390, 391, 392, 393, 394, 396, 397, 398, 399, 400, 401, 402, 404 >>

\* qec_framework_comparison.py: main
MainBody ==
  << 413, 414, 415, 416, 417, 418, 419, 420, 423, 424, 427, 428,
     431, 432, 433, 434, 457, 459, 460, 461, 462 >>

\* LoomModuleBody with a fault: Example 8 has its heading only, the call of
\* line 493 is missing
LoomModuleBodyWithoutEntwine ==
  << 35, 36, 37, 72, 103, 104, 105, 147, 148, 149, 196, 231, 272, 273, 374,
     463, 464, 465, 467, 469, 474, 475, 477, 478, 480, 481, 483, 484, 486,
     487, 489, 490, 492, 495, 496, 498, 499, 501, 502, 503, 504, 505,
     506, 507 >>

\* loom_getting_started.py: the module level, imports then the __main__ block
\* (the handler 470-472 apart)
LoomModuleBody ==
  << 35, 36, 37, 72, 103, 104, 105, 147, 148, 149, 196, 231, 272, 273, 374,
     463, 464, 465, 467, 469, 474, 475, 477, 478, 480, 481, 483, 484, 486,
     487, 489, 490, 492, 493, 495, 496, 498, 499, 501, 502, 503, 504, 505,
     506, 507 >>

\* loom_getting_started.py: example_repetition_code
RepetitionCodeBody == << 43, 46, 50, 53, 56, 57, 58, 60 >>

\* loom_getting_started.py: example_entwine_integration
EntwineBody == << 340, 358, 359, 360, 361, 362, 363 >>

\* deltakit_getting_started.py: the module level, imports then the __main__ block
DeltakitModuleBody ==
  << 37, 60, 93, 127, 173, 216, 271, 308, 353, 397, 442, 496,
     584, 585, 586, 588, 589, 591, 592, 594, 595, 597, 598, 600, 601, 602,
     603, 604, 606, 607, 609, 610, 612, 613, 615, 616, 618, 619, 621, 622,
     624, 625, 627, 628, 630, 631, 632, 633, 634, 635, 636, 637, 638, 639 >>

\* deltakit_getting_started.py: example_textbook_workflow
TextbookBody ==
  << 546, 548, 549, 550, 551, 553, 554, 555, 556, 557, 559, 560, 561, 562,
     563, 565, 566, 567, 568, 570, 571, 573 >>

Range(f) == { f[k] : k \in DOMAIN f }

\* the bodies of a file
Bodies(script) ==
  CASE script = "expanded"   -> { ComprehensiveBody, << 371 >> }
    [] script = "comparison" -> { LoomExampleBody, DeltakitExampleBody, TableBody,
                                  DetailedBody, MainBody, << 466 >> }
    [] script = "loom"       -> { LoomModuleBody, RepetitionCodeBody, EntwineBody }
    [] script = "deltakit"   -> { DeltakitModuleBody, TextbookBody }

BodyOf(script, line) == CHOOSE b \in Bodies(script) : line \in Range(b)

\* the statement after `line` in its body; 0 at the end of the body
NextLine(script, line) ==
  LET later == { l \in Range(BodyOf(script, line)) : l > line }
  IN  IF later = {} THEN 0 ELSE CHOOSE l \in later : \A m \in later : l <= m

\* the statements that are not a print of a literal
Special(script) ==
  CASE script = "expanded"   -> { 16, 125, 126, 127, 128, 129, 130, 216, 371 }
    [] script = "comparison" -> { 241, 293, 296, 297, 298, 299,
                                  423, 424, 427, 428, 466 }
    [] script = "loom"       -> { 35, 36, 37, 72, 103, 104, 105, 147, 148, 149, 196,
                                  231, 272, 273, 374,
                                  43, 46, 50, 53, 56, 57, 58, 60, 340, 469, 471, 472, 493 }
    [] script = "deltakit"   -> { 37, 60, 93, 127, 173, 216, 271, 308, 353, 397, 442,
                                  496, 557, 563, 573, 628 }

\* the try statements of a file: the line of the try, of the except clause,
\* the exception class it names and the statements of the handler
Handlers(script) ==
  CASE script = "comparison" ->
         { [try |-> 27, except |-> 105, catches |-> "ImportError", body |-> << 106, 107 >>],
           [try |-> 130, except |-> 224, catches |-> "ImportError", body |-> << 225, 226 >>] }
    [] script = "loom" ->
         { [try |-> 468, except |-> 470, catches |-> "Exception", body |-> << 471, 472 >>] }
    [] OTHER -> { }

\* the statements of the handlers of a file
HandlerLines(script) == UNION { Range(h.body) : h \in Handlers(script) }

\* Imports with a fault: loom_example of qec_framework_comparison.py runs the
\* import that its comment shows
ImportsInExample(script) ==
  CASE script = "loom" ->
         [l \in { 35, 36, 37, 72, 103, 104, 105, 147, 148, 196, 231, 272, 273, 374 }
            |-> "loom"] @@ (149 :> "numpy")
    [] script = "deltakit" ->
         [l \in { 37, 60, 93, 127, 173, 216, 271, 308, 353, 397, 442, 496 }
            |-> "deltakit"]
    [] script = "comparison" -> (32 :> "loom")
    [] OTHER -> << >>

\* the imports of the module level and the package each needs
Imports(script) ==
  CASE script = "loom" ->
         [l \in { 35, 36, 37, 72, 103, 104, 105, 147, 148, 196, 231, 272, 273, 374 }
            |-> "loom"] @@ (149 :> "numpy")
    [] script = "deltakit" ->
         [l \in { 37, 60, 93, 127, 173, 216, 271, 308, 353, 397, 442, 496 }
            |-> "deltakit"]
    [] OTHER -> << >>

\* the functions a getting-started file defines: first and last line of the def
Functions(script) ==
  CASE script = "loom" ->
         "example_repetition_code" :> << 39, 60 >> @@
         "example_surface_code" :> << 74, 91 >> @@
         "example_memory_experiment" :> << 107, 136 >> @@
         "example_stim_simulation" :> << 151, 186 >> @@
         "example_various_codes" :> << 202, 219 >> @@
         "example_lattice_surgery" :> << 233, 260 >> @@
         "example_custom_eka" :> << 275, 317 >> @@
         "example_entwine_integration" :> << 328, 363 >> @@
         "example_decoding" :> << 376, 406 >> @@
         "example_threshold_analysis" :> << 417, 455 >>
    [] script = "deltakit" ->
         "example_setup" :> << 39, 53 >> @@
         "example_repetition_code" :> << 62, 86 >> @@
         "example_surface_code" :> << 95, 120 >> @@
         "example_memory_experiment" :> << 129, 166 >> @@
         "example_decoding_comparison" :> << 175, 209 >> @@
         "example_noise_models" :> << 218, 264 >> @@
         "example_qldpc_codes" :> << 273, 301 >> @@
         "example_leakage_simulation" :> << 310, 346 >> @@
         "example_stability_experiment" :> << 355, 390 >> @@
         "example_transpilation" :> << 399, 435 >> @@
         "example_visualization" :> << 444, 489 >> @@
         "example_deltaflow_integration" :> << 498, 533 >> @@
         "example_textbook_workflow" :> << 540, 576 >>
    [] OTHER -> << >>

\* the prints of the example headings in the __main__ block, in order, and
\* the statement that follows the last example
ExampleHeadings(script) ==
  CASE script = "loom" ->
         << 467, 474, 477, 480, 483, 486, 489, 492, 495, 498, 501 >>
    [] script = "deltakit" ->
         << 588, 591, 594, 597, 600, 606, 609, 612, 615, 618, 621, 624, 627, 630 >>
    [] OTHER -> << >>

\* the statements that call into an external package, or read an attribute
\* of an object it returned
ExternalCalls(script) ==
  CASE script = "loom"     -> { 43, 46, 50, 53, 56, 57, 58 }
    [] script = "deltakit" -> { 557, 563 }
    [] OTHER               -> { }

\* Calls with a fault: main runs the Deltakit example before the Loom example
CallsExamplesSwapped(script) ==
  CASE script = "expanded"   -> (371 :> 11)
    [] script = "comparison" -> (423 :> 126) @@ (424 :> 23) @@ (427 :> 237) @@
                                (428 :> 311) @@ (466 :> 413)
    [] script = "loom"       -> (493 :> 340)
    [] script = "deltakit"   -> (628 :> 546)

\* the calls of functions of the same file: call line :> first statement of the callee
Calls(script) ==
  CASE script = "expanded"   -> (371 :> 11)
    [] script = "comparison" -> (423 :> 23) @@ (424 :> 126) @@ (427 :> 237) @@
                                (428 :> 311) @@ (466 :> 413)
    [] script = "loom"       -> (493 :> 340)
    [] script = "deltakit"   -> (628 :> 546)

(***************************************************************************)
(* Formatting of the computed lines.                                       *)
(***************************************************************************)
\* RowText with a fault: the name is written without its padding
RowTextUnpadded(name, value) == name \o " | " \o value

\* expanded_qec_comparison.py:130, f"{name:15} | {details[category]}"
RowText(name, value) == Ljust(name, NameWidth) \o " | " \o value

\* TableRowText with a fault: the two profile columns change places
TableRowTextSwapped(feature, loom_val, delta_val) ==
  Ljust(feature, FeatureWidth) \o " | " \o Ljust(delta_val, ValueWidth) \o " | "
    \o Ljust(loom_val, ValueWidth)

\* qec_framework_comparison.py:299,
\* f"{feature:<30} | {loom_val:<40} | {delta_val:<40}"
TableRowText(feature, loom_val, delta_val) ==
  Ljust(feature, FeatureWidth) \o " | " \o Ljust(loom_val, ValueWidth) \o " | "
    \o Ljust(delta_val, ValueWidth)

\* qec_framework_comparison.py:293, the header after its leading newline
HeaderText == TableRowText("Feature", "Loom", "Deltakit")

\* Lookup with a fault: details.get(category, "")
LookupOrDefault(details, category) ==
  [raised |-> FALSE,
   value |-> IF category \in DOMAIN details THEN details[category] ELSE ""]

\* details[category]: the value, or the KeyError of a missing key
Lookup(details, category) ==
  IF category \in DOMAIN details
  THEN [raised |-> FALSE, value |-> details[category]]
  ELSE [raised |-> TRUE, value |-> ""]

\* Index with a fault: a missing value reads as the empty string
IndexOrBlank(column, k) ==
  [raised |-> FALSE, value |-> IF k \in 1..Len(column) THEN column[k] ELSE ""]

\* column[i] with i counted from 1: the value, or the IndexError of a list
\* that is too short
Index(column, k) ==
  IF k \in 1..Len(column)
  THEN [raised |-> FALSE, value |-> column[k]]
  ELSE [raised |-> TRUE, value |-> ""]

(***************************************************************************)
(* Lines of the output stream.                                             *)
(***************************************************************************)
Line(at, s) == [at |-> at, kind |-> "line", label |-> "", s |-> s]
Literal(at) == [at |-> at, kind |-> "literal", label |-> "", s |-> ""]

\* GuideLines with a fault: the literal ends after scenario 4
GuideLinesCut ==
  [k \in 1..43 |->
     [at |-> 216, kind |-> ScenarioGuide[k][1], label |-> ScenarioGuide[k][2],
      s |-> ScenarioGuide[k][3]]]

\* the lines print() writes for the literal of expanded_qec_comparison.py:216
GuideLines ==
  [k \in 1..Len(ScenarioGuide) |->
     [at |-> 216, kind |-> ScenarioGuide[k][1], label |-> ScenarioGuide[k][2],
      s |-> ScenarioGuide[k][3]]]

(***************************************************************************)
(* Inputs.  A script run as the entry point works on its literals; an      *)
(* entry function is also applied to the bounded inputs below, the dict    *)
(* bound at expanded_qec_comparison.py:16, the list of line 125 and the    *)
(* dict bound at qec_framework_comparison.py:241.                          *)
(***************************************************************************)
Restrict(f, S) == [x \in S |-> f[x]]

\* profile p of ds without the key k
Without(ds, p, k) ==
  [ds EXCEPT ![p] = [name |-> @.name,
                     details |-> Restrict(@.details, DOMAIN @.details \ {k})]]

ProfileCounts == { 0, 3, Len(Profiles) }
DropKeys == { "Type", "Best For", "License" }

\* profile p of ds under the name n
Renamed(ds, p, n) == [ds EXCEPT ![p] = [name |-> n, details |-> @.details]]

\* a name longer than the column of line 130
LongNames == { "Deltakit (Riverlane)" }

Datasets ==
  UNION { { SubSeq(Profiles, 1, n) } \cup
          { Without(SubSeq(Profiles, 1, n), p, k) : p \in 1..n, k \in DropKeys }
          : n \in ProfileCounts }
  \cup { Renamed(SubSeq(Profiles, 1, 3), 2, n) : n \in LongNames }

CategoryLists == { Categories, << "Type" >> }

ColumnLengths == { 0, 1, 2, Len(FeatureColumn) }

Table(nf, nl, nd) ==
  "Feature" :> SubSeq(FeatureColumn, 1, nf) @@
  "Loom (Entropica Labs)" :> SubSeq(LoomColumn, 1, nl) @@
  "Deltakit (Riverlane)" :> SubSeq(DeltakitColumn, 1, nd)

\* Comparison with a fault: the Deltakit list of the literal lacks its last
\* value
ComparisonShortDeltakit ==
  Table(Len(FeatureColumn), Len(LoomColumn), Len(DeltakitColumn) - 1)

\* qec_framework_comparison.py:241-290, the `comparison` dict
Comparison == Table(Len(FeatureColumn), Len(LoomColumn), Len(DeltakitColumn))

Tables == { Table(nf, nl, nd) : nf \in ColumnLengths, nl \in ColumnLengths,
                                nd \in ColumnLengths }

\* messages of the exceptions an external library raises
ExcMessages == { "e1", "e2" }
\* values an external object shows when printed
ExtValues == { "3", "5" }

Input(script, fn, start, dataset, categories, table, env) ==
  [script |-> script, fn |-> fn, start |-> start, dataset |-> dataset,
   categories |-> categories, table |-> table, env |-> env]

Inputs ==
  { Input("expanded", "__main__", 371, Profiles, Categories, Comparison, {}) }
  \cup { Input("expanded", "print_comprehensive_comparison", 11, d, c, Comparison, {})
         : d \in Datasets, c \in CategoryLists }
  \cup { Input("comparison", "__main__", 466, Profiles, Categories, Comparison, {}) }
  \cup { Input("comparison", "main", 413, Profiles, Categories, Comparison, {}) }
  \cup { Input("comparison", "loom_example", 23, Profiles, Categories, Comparison, {}) }
  \cup { Input("comparison", "deltakit_example", 126, Profiles, Categories, Comparison, {}) }
  \cup { Input("comparison", "print_comparison_table", 237, Profiles, Categories, t, {})
         : t \in Tables }
  \cup { Input("comparison", "print_detailed_comparison", 311, Profiles, Categories,
               Comparison, {}) }
  \cup { Input("loom", "__main__", 35, Profiles, Categories, Comparison, e)
         : e \in SUBSET { "loom", "numpy" } }
  \cup { Input("deltakit", "__main__", 37, Profiles, Categories, Comparison, e)
         : e \in SUBSET { "deltakit" } }

(***************************************************************************)
(* State.                                                                  *)
(***************************************************************************)
VARIABLES
  input,       \* the entry that runs and what it runs on
  pc,          \* source line of the next statement, 0 when the run has ended
  stack,       \* return lines of the calls in progress, innermost first
  frameworks,  \* expanded_qec_comparison.py: the local of line 16
  ci,          \* how many categories the loop of line 125 has taken
  pi,          \* how many profiles the loop of line 129 has taken
  comparison,  \* qec_framework_comparison.py: the local of line 241
  i,           \* how many features the loop of line 296 has taken
  loom_val,    \* the local of line 297
  delta_val,   \* the local of line 298
  exc,         \* the message of the exception being handled
  out,         \* the output stream
  err,         \* the exception that left the entry uncaught, "" for none
  run,         \* the number of the invocation in progress
  marks        \* Len(out) at the start of each invocation

\* the state of the example functions of the getting-started files that are
\* run on their own: their locals and the objects of the external package
VARIABLES
  refs,                \* the locals that hold an external object: name :> object
  heap,                \* how many external objects exist
  attrs,               \* the attributes read from a results object
  calls,               \* the calls made into the external package, in order
  it,                  \* how many items the loop of the function has taken
  results_comparison,  \* deltakit_getting_started.py: the local of line 195
  results_by_rate,     \* deltakit_getting_started.py: the local of line 366
  threshold,           \* deltakit_getting_started.py: the local of line 387
  inner,               \* how many items a loop inside the loop, or a comprehension, has taken
  floats               \* the numbers read so far: << object, name >> :> number

elocals == << refs, heap, attrs, calls, it, results_comparison, results_by_rate,
              threshold, inner, floats >>

vars == << input, pc, stack, frameworks, ci, pi, comparison, i, loom_val,
           delta_val, exc, out, err, run, marks, elocals >>

locals == << frameworks, ci, pi, comparison, i, loom_val, delta_val, exc >>

script == input.script

\* a local that no statement has bound yet
Unbound == << >>

\* no example function has run: no local is bound and no object exists
NoExample ==
  /\ refs = << >>
  /\ heap = 0
  /\ attrs = << >>
  /\ calls = << >>
  /\ it = 0
  /\ results_comparison = Unbound
  /\ results_by_rate = Unbound
  /\ threshold = 0
  /\ inner = 0
  /\ floats = << >>

Init ==
  /\ input \in Inputs
  /\ pc = input.start
  /\ stack = << >>
  /\ frameworks = Unbound
  /\ ci = 0
  /\ pi = 0
  /\ comparison = Unbound
  /\ i = 0
  /\ loom_val = ""
  /\ delta_val = ""
  /\ exc = ""
  /\ out = << >>
  /\ err = ""
  /\ run = 1
  /\ marks = << 0 >>
  /\ NoExample

(***************************************************************************)
(* Control.                                                                *)
(***************************************************************************)
\* the loop variables of expanded_qec_comparison.py:125 and 129
category == input.categories[ci]
name == frameworks[pi].name
\* details with a fault: the loop reads the profile after the current one
detailsOfNextProfile ==
  frameworks[IF pi < Len(frameworks) THEN pi + 1 ELSE 1].details

details == frameworks[pi].details
\* the loop variable of qec_framework_comparison.py:296
feature == comparison["Feature"][i]

\* the statement at pc completed and n follows it; at the end of a body the
\* function returns to its caller, and the entry ends the run
Step(n) ==
  IF n # 0 THEN pc' = n /\ stack' = stack
  ELSE IF stack # << >> THEN pc' = Head(stack) /\ stack' = Tail(stack)
  ELSE pc' = 0 /\ stack' = stack

\* an exception no handler catches unwinds every frame
Raise(e) ==
  /\ err' = e
  /\ pc' = 0
  /\ stack' = << >>

\* print(...) of a literal
PrintLiteral ==
  /\ pc # 0
  /\ pc \notin Special(script)
  /\ out' = Append(out, Literal(pc))
  /\ Step(NextLine(script, pc))
  /\ UNCHANGED << input, locals, err, run, marks >>
  /\ UNCHANGED elocals

\* a call of a function of the same file
Call ==
  /\ pc \in DOMAIN Calls(script)
  /\ pc' = Calls(script)[pc]
  /\ stack' = << NextLine(script, pc) >> \o stack
  /\ UNCHANGED << input, locals, out, err, run, marks >>
  /\ UNCHANGED elocals

\* Import with a fault: the import is guarded and a failure is passed over
ImportLenient ==
  /\ pc \in DOMAIN Imports(script)
  /\ Step(NextLine(script, pc)) /\ err' = err
  /\ UNCHANGED << input, locals, out, run, marks >>
  /\ UNCHANGED elocals

\* from <package> import ... at the module level
Import ==
  /\ pc \in DOMAIN Imports(script)
  /\ IF Imports(script)[pc] \in input.env
     THEN Step(NextLine(script, pc)) /\ err' = err
     ELSE Raise("ImportError")
  /\ UNCHANGED << input, locals, out, run, marks >>
  /\ UNCHANGED elocals

(***************************************************************************)
(* expanded_qec_comparison.py                                              *)
(***************************************************************************)
\* FrameworksLiteral with a fault: the dict lives at the module level and the
\* first invocation consumes its first profile
FrameworksShared ==
  IF run = 1 THEN input.dataset ELSE SubSeq(input.dataset, 2, Len(input.dataset))

\* lines 16-122: the dict literal, evaluated anew at every invocation
FrameworksLiteral == input.dataset

\* BindFrameworks with a fault: the last profile of the dict is bound
\* without its License
BindFrameworksPartial ==
  /\ script = "expanded" /\ pc = 16
  /\ frameworks' =
       [p \in 1..Len(FrameworksLiteral) |->
          IF p < Len(FrameworksLiteral) THEN FrameworksLiteral[p]
          ELSE [name |-> FrameworksLiteral[p].name,
                details |-> Restrict(FrameworksLiteral[p].details,
                                     DOMAIN FrameworksLiteral[p].details \ { "License" })]]
  /\ pc' = 125
  /\ UNCHANGED << input, stack, ci, pi, comparison, i, loom_val, delta_val, exc,
                  out, err, run, marks >>
  /\ UNCHANGED elocals

\* line 16: frameworks = {...}
BindFrameworks ==
  /\ script = "expanded" /\ pc = 16
  /\ frameworks' = FrameworksLiteral
  /\ pc' = 125
  /\ UNCHANGED << input, stack, ci, pi, comparison, i, loom_val, delta_val, exc,
                  out, err, run, marks >>
  /\ UNCHANGED elocals

\* line 125: for category in [...]
ForCategory ==
  /\ script = "expanded" /\ pc = 125
  /\ IF ci < Len(input.categories)
     THEN ci' = ci + 1 /\ pi' = 0 /\ pc' = 126
     ELSE ci' = ci /\ pi' = pi /\ pc' = 132
  /\ UNCHANGED << input, stack, frameworks, comparison, i, loom_val, delta_val,
                  exc, out, err, run, marks >>
  /\ UNCHANGED elocals

\* line 126: print(f"\n{'=' * 100}")
PrintBannerTop ==
  /\ script = "expanded" /\ pc = 126
  /\ out' = out \o << Line(126, ""), Line(126, Rep("=", RuleWidth)) >>
  /\ pc' = 127
  /\ UNCHANGED << input, stack, locals, err, run, marks >>
  /\ UNCHANGED elocals

\* line 127: print(f"{category.upper()}")
PrintCategoryName ==
  /\ script = "expanded" /\ pc = 127
  /\ out' = Append(out, Line(127, Upper(category)))
  /\ pc' = 128
  /\ UNCHANGED << input, stack, locals, err, run, marks >>
  /\ UNCHANGED elocals

\* line 128: print(f"{'=' * 100}")
PrintBannerBottom ==
  /\ script = "expanded" /\ pc = 128
  /\ out' = Append(out, Line(128, Rep("=", RuleWidth)))
  /\ pc' = 129
  /\ UNCHANGED << input, stack, locals, err, run, marks >>
  /\ UNCHANGED elocals

\* ForProfile with a fault: the loop is left after its first profile
ForProfileOnce ==
  /\ script = "expanded" /\ pc = 129
  /\ IF pi < Len(frameworks) /\ pi < 1
     THEN pi' = pi + 1 /\ pc' = 130
     ELSE pi' = pi /\ pc' = 125
  /\ UNCHANGED << input, stack, frameworks, ci, comparison, i, loom_val,
                  delta_val, exc, out, err, run, marks >>
  /\ UNCHANGED elocals

\* line 129: for name, details in frameworks.items()
ForProfile ==
  /\ script = "expanded" /\ pc = 129
  /\ IF pi < Len(frameworks)
     THEN pi' = pi + 1 /\ pc' = 130
     ELSE pi' = pi /\ pc' = 125
  /\ UNCHANGED << input, stack, frameworks, ci, comparison, i, loom_val,
                  delta_val, exc, out, err, run, marks >>
  /\ UNCHANGED elocals

\* PrintRow with a fault: the value is taken out of the profile as it is
\* printed, details.pop(category)
PrintRowConsuming ==
  /\ script = "expanded" /\ pc = 130
  /\ category \in DOMAIN details
  /\ out' = Append(out, Line(130, RowText(name, details[category])))
  /\ frameworks' = [frameworks EXCEPT ![pi] =
                      [name |-> @.name,
                       details |-> Restrict(@.details, DOMAIN @.details \ { category })]]
  /\ pc' = 129
  /\ UNCHANGED << input, stack, ci, pi, comparison, i, loom_val, delta_val, exc,
                  err, run, marks >>
  /\ UNCHANGED elocals

\* line 130: print(f"{name:15} | {details[category]}")
PrintRow ==
  /\ script = "expanded" /\ pc = 130
  /\ LET v == Lookup(details, category)
     IN  IF v.raised
         THEN Raise("KeyError") /\ out' = out
         ELSE /\ out' = Append(out, Line(130, RowText(name, v.value)))
              /\ pc' = 129
              /\ UNCHANGED << stack, err >>
  /\ UNCHANGED << input, locals, run, marks >>
  /\ UNCHANGED elocals

\* PrintScenarioGuide with a fault: the best choice of every scenario is
\* computed from the profiles, here the name of the last one
PrintScenarioGuideDerived ==
  /\ script = "expanded" /\ pc = 216
  /\ out' = out \o
       [k \in 1..Len(GuideLines) |->
          IF GuideLines[k].label = "BEST CHOICE" /\ Len(frameworks) > 0
          THEN [GuideLines[k] EXCEPT !.s = frameworks[Len(frameworks)].name]
          ELSE GuideLines[k]]
  /\ Step(NextLine(script, pc))
  /\ UNCHANGED << input, locals, err, run, marks >>
  /\ UNCHANGED elocals

\* line 216: print("""...""") of the scenario guide
PrintScenarioGuide ==
  /\ script = "expanded" /\ pc = 216
  /\ out' = out \o GuideLines
  /\ Step(NextLine(script, pc))
  /\ UNCHANGED << input, locals, err, run, marks >>
  /\ UNCHANGED elocals

(***************************************************************************)
(* qec_framework_comparison.py                                             *)
(***************************************************************************)
\* line 241: comparison = {...}
BindComparison ==
  /\ script = "comparison" /\ pc = 241
  /\ comparison' = input.table
  /\ pc' = 293
  /\ UNCHANGED << input, stack, frameworks, ci, pi, i, loom_val, delta_val, exc,
                  out, err, run, marks >>
  /\ UNCHANGED elocals

\* line 293: print(f"\n{'Feature':<30} | {'Loom':<40} | {'Deltakit':<40}")
PrintHeader ==
  /\ script = "comparison" /\ pc = 293
  /\ out' = out \o << Line(293, ""), Line(293, HeaderText) >>
  /\ pc' = 294
  /\ UNCHANGED << input, stack, locals, err, run, marks >>
  /\ UNCHANGED elocals

\* line 296: for i, feature in enumerate(comparison["Feature"])
ForFeature ==
  /\ script = "comparison" /\ pc = 296
  /\ IF i < Len(comparison["Feature"])
     THEN i' = i + 1 /\ pc' = 297
     ELSE i' = i /\ pc' = 301
  /\ UNCHANGED << input, stack, frameworks, ci, pi, comparison, loom_val,
                  delta_val, exc, out, err, run, marks >>
  /\ UNCHANGED elocals

\* line 297: loom_val = comparison["Loom (Entropica Labs)"][i]
ReadLoomVal ==
  /\ script = "comparison" /\ pc = 297
  /\ LET v == Index(comparison["Loom (Entropica Labs)"], i)
     IN  IF v.raised
         THEN Raise("IndexError") /\ loom_val' = loom_val
         ELSE loom_val' = v.value /\ pc' = 298 /\ UNCHANGED << stack, err >>
  /\ UNCHANGED << input, frameworks, ci, pi, comparison, i, delta_val, exc, out,
                  run, marks >>
  /\ UNCHANGED elocals

\* line 298: delta_val = comparison["Deltakit (Riverlane)"][i]
ReadDeltaVal ==
  /\ script = "comparison" /\ pc = 298
  /\ LET v == Index(comparison["Deltakit (Riverlane)"], i)
     IN  IF v.raised
         THEN Raise("IndexError") /\ delta_val' = delta_val
         ELSE delta_val' = v.value /\ pc' = 299 /\ UNCHANGED << stack, err >>
  /\ UNCHANGED << input, frameworks, ci, pi, comparison, i, loom_val, exc, out,
                  run, marks >>
  /\ UNCHANGED elocals

\* line 299: print(f"{feature:<30} | {loom_val:<40} | {delta_val:<40}")
PrintTableRow ==
  /\ script = "comparison" /\ pc = 299
  /\ out' = Append(out, Line(299, TableRowText(feature, loom_val, delta_val)))
  /\ pc' = 296
  /\ UNCHANGED << input, stack, locals, err, run, marks >>
  /\ UNCHANGED elocals

(***************************************************************************)
(* loom_getting_started.py                                                 *)
(***************************************************************************)
\* lines 468-469: try: example_repetition_code()
TryCall ==
  /\ script = "loom" /\ pc = 469
  /\ pc' = 43
  /\ stack' = << NextLine(script, pc) >> \o stack
  /\ UNCHANGED << input, locals, out, err, run, marks >>
  /\ UNCHANGED elocals

\* LoomCall with a fault: no handler encloses the call of line 469 and the
\* exception leaves the script uncaught
LoomCallUncaught ==
  /\ script = "loom" /\ pc \in { 43, 46, 50, 53 }
  /\ \/ /\ pc' = NextLine(script, pc)
        /\ UNCHANGED << stack, err >>
     \/ Raise("Exception")
  /\ UNCHANGED << input, locals, out, run, marks >>
  /\ UNCHANGED elocals

\* lines 43, 46, 50, 53 of example_repetition_code: a call into the loom
\* package, which returns or raises; the handler of line 470 catches
LoomCall ==
  /\ script = "loom" /\ pc \in { 43, 46, 50, 53 }
  /\ \/ /\ pc' = NextLine(script, pc)
        /\ UNCHANGED << stack, exc >>
     \/ \E m \in ExcMessages :
          /\ exc' = m
          /\ pc' = 471
          /\ stack' = Tail(stack)
  /\ UNCHANGED << input, frameworks, ci, pi, comparison, i, loom_val, delta_val,
                  out, err, run, marks >>
  /\ UNCHANGED elocals

\* loom_getting_started.py:56-58, the text before the value
LoomValueText ==
  56 :> "Number of data qubits: " @@ 57 :> "Number of stabilizers: " @@
  58 :> "Code distance: "

\* lines 56-58 of example_repetition_code: print(f"...{len(eka.data_qubits)}")
\* and the like, of values the loom package holds
PrintLoomValue ==
  /\ script = "loom" /\ pc \in { 56, 57, 58 }
  /\ \/ \E v \in ExtValues :
          /\ out' = Append(out, Line(pc, LoomValueText[pc] \o v))
          /\ pc' = NextLine(script, pc)
          /\ UNCHANGED << stack, exc >>
     \/ \E m \in ExcMessages :
          /\ exc' = m
          /\ pc' = 471
          /\ stack' = Tail(stack)
          /\ out' = out
  /\ UNCHANGED << input, frameworks, ci, pi, comparison, i, loom_val, delta_val,
                  err, run, marks >>
  /\ UNCHANGED elocals

\* line 60, and deltakit_getting_started.py:573: return
Return ==
  /\ \/ script = "loom" /\ pc = 60
     \/ script = "deltakit" /\ pc = 573
  /\ Step(0)
  /\ UNCHANGED << input, locals, out, err, run, marks >>
  /\ UNCHANGED elocals

\* lines 470-471: except Exception as e: print(f"Note: {e}")
ExceptNote ==
  /\ script = "loom" /\ pc = 471
  /\ out' = Append(out, Line(471, "Note: " \o exc))
  /\ pc' = 472
  /\ UNCHANGED << input, stack, locals, err, run, marks >>
  /\ UNCHANGED elocals

\* ExceptHint with a fault: the handler ends with `raise`
ExceptHintReraise ==
  /\ script = "loom" /\ pc = 472
  /\ out' = Append(out, Literal(472))
  /\ Raise("Exception")
  /\ exc' = ""
  /\ UNCHANGED << input, frameworks, ci, pi, comparison, i, loom_val,
                  delta_val, run, marks >>
  /\ UNCHANGED elocals

\* line 472: print("This example requires Loom to be installed: ...")
ExceptHint ==
  /\ script = "loom" /\ pc = 472
  /\ out' = Append(out, Literal(472))
  /\ pc' = 474
  /\ exc' = ""
  /\ UNCHANGED << input, stack, frameworks, ci, pi, comparison, i, loom_val,
                  delta_val, err, run, marks >>
  /\ UNCHANGED elocals

\* line 340: entwine_generated_code = '''...'''
BindGeneratedCode ==
  /\ script = "loom" /\ pc = 340
  /\ pc' = NextLine(script, pc)
  /\ UNCHANGED << input, stack, locals, out, err, run, marks >>
  /\ UNCHANGED elocals

(***************************************************************************)
(* deltakit_getting_started.py                                             *)
(***************************************************************************)
\* lines 557 and 563 of example_textbook_workflow: RepetitionCode(distance=3),
\* SurfaceCode(distance=3), calls into the deltakit package outside any try
DeltakitCall ==
  /\ script = "deltakit" /\ pc \in { 557, 563 }
  /\ \/ /\ pc' = NextLine(script, pc)
        /\ UNCHANGED << stack, err >>
     \/ Raise("Exception")
  /\ UNCHANGED << input, locals, out, run, marks >>
  /\ UNCHANGED elocals

(***************************************************************************)
(* The same entry function invoked again in the same process.              *)
(***************************************************************************)
Rerun ==
  /\ pc = 0 /\ err = ""
  /\ input.fn # "__main__"
  /\ run < MaxRuns
  /\ run' = run + 1
  /\ marks' = Append(marks, Len(out))
  /\ pc' = input.start
  /\ frameworks' = Unbound
  /\ comparison' = Unbound
  /\ ci' = 0 /\ pi' = 0 /\ i' = 0
  /\ loom_val' = "" /\ delta_val' = ""
  /\ UNCHANGED << input, stack, exc, out, err >>
  /\ UNCHANGED elocals

Next ==
  \/ PrintLiteral
  \/ Call
  \/ Import
  \/ BindFrameworks
  \/ ForCategory
  \/ PrintBannerTop
  \/ PrintCategoryName
  \/ PrintBannerBottom
  \/ ForProfile
  \/ PrintRow
  \/ PrintScenarioGuide
  \/ BindComparison
  \/ PrintHeader
  \/ ForFeature
  \/ ReadLoomVal
  \/ ReadDeltaVal
  \/ PrintTableRow
  \/ TryCall
  \/ LoomCall
  \/ PrintLoomValue
  \/ Return
  \/ ExceptNote
  \/ ExceptHint
  \/ BindGeneratedCode
  \/ DeltakitCall
  \/ Rerun

Spec == Init /\ [][Next]_vars

\* the exit status of the interpreter once a script run as the entry point has
\* ended: 1 after an uncaught exception, else 0; -1 while it runs
ExitStatus ==
  IF pc # 0 \/ input.fn # "__main__" THEN -1
  ELSE IF err = "" THEN 0 ELSE 1

(***************************************************************************)
(* The example functions of the getting-started files, each called on its  *)
(* own.  The package is importable; every call into it returns or raises,  *)
(* an object it returns is a new object, and a number it returns is one of *)
(* a few values.  A float is held as the integer count of its last printed *)
(* decimal place.  loom_getting_started.example_memory_experiment and      *)
(* deltakit_getting_started.example_decoding_comparison and                *)
(* example_stability_experiment have an action per statement; the other    *)
(* functions are tables of statements, run by one action per kind.         *)
(***************************************************************************)
\* num_cycles of example_memory_experiment goes up to MaxCycles
MaxCycles == 5

\* loom_getting_started.py: example_memory_experiment
MemoryExperimentBody ==
  << 111, 112, 113, 116, 119, 122, 124, 127, 130, 132, 133, 134, 136 >>

\* deltakit_getting_started.py: example_decoding_comparison
DecodingComparisonBody ==
  << 181, 185, 186, 187, 191, 192, 193, 195, 197, 199, 200, 205, 206, 207, 209 >>

\* deltakit_getting_started.py: example_stability_experiment
StabilityBody ==
  << 361, 364, 366, 368, 370, 377, 378, 381, 382, 384, 387, 388, 390 >>

(***************************************************************************)
(* The statements of the other example functions, as tables: for each      *)
(* function, the line of a statement :> what the statement does.           *)
(***************************************************************************)
RECURSIVE Pow10(_)
Pow10(d) == IF d = 0 THEN 1 ELSE 10 * Pow10(d - 1)

\* format spec `.df` of the float n / 10^d, n >= 0
Fixed(n, d) ==
  ToString(n \div Pow10(d)) \o "." \o
  Rep("0", d - Len(ToString(n % Pow10(d)))) \o ToString(n % Pow10(d))

\* str() of the float n / 10^d, 0.0001 <= n / 10^d: the shortest decimal, with
\* one digit after the point at least
RECURSIVE DecimalStr(_, _)
DecimalStr(n, d) ==
  IF d > 1 /\ n % 10 = 0 THEN DecimalStr(n \div 10, d - 1) ELSE Fixed(n, d)

\* a number as print shows it
Format(n, fmt, digits) ==
  CASE fmt = "d" -> ToString(n)
    [] fmt = "f" -> Fixed(n, digits)
    [] fmt = "r" -> DecimalStr(n, digits)

(***************************************************************************)
(* The floats of the example functions.  Python's float is the IEEE 754    *)
(* binary64: every operation gives the double nearest to the exact result, *)
(* ties to the even mantissa, and a format spec `.df` shows the decimal    *)
(* nearest to the double, ties to the even digit.  Mantissas are naturals  *)
(* of 53 bits, held as their digits in base Limb, least significant first. *)
(***************************************************************************)
PowersOfTwo ==
  << 1, 2, 4, 8, 16, 32, 64, 128, 256, 512, 1024, 2048, 4096, 8192, 16384, 32768 >>

\* 2^k, k <= LimbBits
Pow2(k) == PowersOfTwo[k + 1]

LimbBits == Len(PowersOfTwo) - 1
Limb == Pow2(LimbBits)

\* the bits of the mantissa of a double
MantissaBits == 53

\* the bits of a quotient before it is rounded: one to round on and one more
GuardBits == MantissaBits + 2

\* a long division yields ChunkBits bits at a time, estimated from the
\* leading EstimateBits bits of the divisor
ChunkBits == LimbBits \div 2
EstimateBits == 2 * LimbBits - ChunkBits

\* the natural n as digits
RECURSIVE Big(_)
Big(n) == IF n = 0 THEN << >> ELSE << n % Limb >> \o Big(n \div Limb)

\* the digits as an integer, for a natural that is small
RECURSIVE Small(_)
Small(a) == IF a = << >> THEN 0 ELSE a[1] + Limb * Small(Tail(a))

RECURSIVE Norm(_)
Norm(a) ==
  IF a # << >> /\ a[Len(a)] = 0 THEN Norm(SubSeq(a, 1, Len(a) - 1)) ELSE a

Digit(a, k) == IF k \in DOMAIN a THEN a[k] ELSE 0

BigLess(a, b) ==
  IF Len(a) # Len(b) THEN Len(a) < Len(b)
  ELSE \E k \in DOMAIN a :
         a[k] < b[k] /\ \A j \in (k + 1)..Len(a) : a[j] = b[j]

RECURSIVE AddFrom(_, _, _, _)
AddFrom(a, b, k, c) ==
  IF k > Len(a) /\ k > Len(b) THEN (IF c = 0 THEN << >> ELSE << c >>)
  ELSE LET sum == Digit(a, k) + Digit(b, k) + c
       IN  << sum % Limb >> \o AddFrom(a, b, k + 1, sum \div Limb)

BigAdd(a, b) == AddFrom(a, b, 1, 0)

RECURSIVE SubFrom(_, _, _, _)
SubFrom(a, b, k, c) ==
  IF k > Len(a) THEN << >>
  ELSE LET diff == Digit(a, k) - Digit(b, k) - c
       IN  << (diff + Limb) % Limb >>
             \o SubFrom(a, b, k + 1, IF diff < 0 THEN 1 ELSE 0)

\* a - b, a >= b
BigSub(a, b) == Norm(SubFrom(a, b, 1, 0))

RECURSIVE TimesFrom(_, _, _, _)
TimesFrom(a, m, k, c) ==
  IF k > Len(a) THEN (IF c = 0 THEN << >> ELSE << c >>)
  ELSE LET prod == a[k] * m + c
       IN  << prod % Limb >> \o TimesFrom(a, m, k + 1, prod \div Limb)

\* a * m, m < Limb
BigTimes(a, m) == IF m = 0 THEN << >> ELSE TimesFrom(a, m, 1, 0)

\* a * Limb^n
Limbs(a, n) == IF a = << >> THEN << >> ELSE [j \in 1..n |-> 0] \o a

RECURSIVE BigMul(_, _)
BigMul(a, b) ==
  IF b = << >> THEN << >>
  ELSE BigAdd(BigTimes(a, b[1]), Limbs(BigMul(a, Tail(b)), 1))

\* a * 2^n
Shl(a, n) == Limbs(BigTimes(a, Pow2(n % LimbBits)), n \div LimbBits)

\* a \div 2^n
Shr(a, n) ==
  LET dropped == n \div LimbBits
      within  == n % LimbBits
      kept    == SubSeq(a, dropped + 1, Len(a))
  IN  Norm([j \in 1..Len(kept) |->
              (kept[j] \div Pow2(within))
                + (Digit(kept, j + 1) % Pow2(within)) * Pow2(LimbBits - within)])

\* bit n of a, bit 0 the least significant
Bit(a, n) == (Digit(a, n \div LimbBits + 1) \div Pow2(n % LimbBits)) % 2

\* the number of bits of a digit
SmallLen(n) == Cardinality({ j \in 0..(LimbBits - 1) : Pow2(j) <= n })

\* the number of bits of a
BitLen(a) ==
  IF a = << >> THEN 0 ELSE LimbBits * (Len(a) - 1) + SmallLen(a[Len(a)])

\* bits below bit n of a are not all zero
LowBits(a, n) == Shl(Shr(a, n), n) # a

\* a \div 2^n rounded to the nearest natural, ties to even; sticky when a
\* stands for a number a little above it
Nearest(a, n, sticky) ==
  IF n <= 0 THEN Shl(a, -n)
  ELSE LET floor == Shr(a, n)
           above == Bit(a, n - 1) = 1
                      /\ (sticky \/ LowBits(a, n - 1) \/ Bit(floor, 0) = 1)
       IN  IF above THEN BigAdd(floor, Big(1)) ELSE floor

\* long division by d, ChunkBits bits further: st holds the quotient, the
\* remainder (less than d) and the number of bits after the binary point.
\* The bits are estimated from the leading EstimateBits bits of d and of the
\* remainder, which gives them or one less
DivChunk(d, st) ==
  LET cut   == IF BitLen(d) > EstimateBits THEN BitLen(d) - EstimateBits ELSE 0
      guess == (Small(Shr(st[2], cut)) * Pow2(ChunkBits))
                 \div (Small(Shr(d, cut)) + (IF cut > 0 THEN 1 ELSE 0))
      rest  == IF guess = 0 THEN Shl(st[2], ChunkBits)
               ELSE BigSub(Shl(st[2], ChunkBits), BigTimes(d, guess))
  IN  IF BigLess(rest, d)
      THEN << BigAdd(Shl(st[1], ChunkBits), Big(guess)), rest, st[3] + ChunkBits >>
      ELSE << BigAdd(Shl(st[1], ChunkBits), Big(guess + 1)), BigSub(rest, d),
              st[3] + ChunkBits >>

\* ... and on until the quotient has GuardBits bits
RECURSIVE DivSteps(_, _)
DivSteps(d, st) ==
  IF BitLen(st[1]) >= GuardBits THEN st ELSE DivSteps(d, DivChunk(d, st))

\* a double: (-1)^neg * m * 2^e, m = 0 or of MantissaBits bits
Float(neg, m, e) == [neg |-> neg, m |-> m, e |-> e]

\* the double nearest to n * 2^e (and a little above it, when sticky)
Round(neg, n, e, sticky) ==
  LET excess  == BitLen(n) - MantissaBits
      rounded == Nearest(n, excess, sticky)
  IN  IF n = << >> THEN Float(neg, << >>, 0)
      ELSE IF BitLen(rounded) > MantissaBits
           THEN Float(neg, Shr(rounded, 1), e + excess + 1)
      ELSE Float(neg, rounded, e + excess)

\* the double nearest to (-1)^neg * n / d * 2^e, n and d > 0 naturals
Quotient(neg, n, d, e) ==
  LET longer == BitLen(n) - BitLen(d)
      upper  == IF longer < 0 THEN Shl(n, -longer) ELSE n
      lower  == IF longer > 0 THEN Shl(d, longer) ELSE d
      whole  == ~BigLess(upper, lower)
      quot   == DivSteps(lower, << Big(IF whole THEN 1 ELSE 0),
                                   IF whole THEN BigSub(upper, lower) ELSE upper,
                                   0 >>)
  IN  IF n = << >> THEN Float(neg, << >>, 0)
      ELSE Round(neg, quot[1], e + longer - quot[3], quot[2] # << >>)

\* the double nearest to p / q, p >= 0 and q > 0 integers: the float of a
\* decimal, and int / int
Double(p, q) == Quotient(FALSE, Big(p), Big(q), 0)

\* x / y, y # 0
FloatDiv(x, y) ==
  IF y.m # << >> /\ x.m = << >> THEN Float(x.neg # y.neg, << >>, 0)
  ELSE Quotient(x.neg # y.neg, x.m, y.m, x.e - y.e)

\* x * y
FloatMul(x, y) ==
  IF x.m = << >> \/ y.m = << >> THEN Float(x.neg # y.neg, << >>, 0)
  ELSE Round(x.neg # y.neg, BigMul(x.m, y.m), x.e + y.e, FALSE)

\* x - y, x >= 0 and y >= 0
FloatSub(x, y) ==
  LET low   == IF x.e < y.e THEN x.e ELSE y.e
      left  == Shl(x.m, x.e - low)
      right == Shl(y.m, y.e - low)
  IN  IF y.m = << >> THEN x
      ELSE IF x.m = << >> THEN Float(TRUE, y.m, y.e)
      ELSE IF BigLess(left, right) THEN Round(TRUE, BigSub(right, left), low, FALSE)
      ELSE Round(FALSE, BigSub(left, right), low, FALSE)

\* format spec `.df` of the double x
FloatFixed(x, d) ==
  (IF x.neg THEN "-" ELSE "")
    \o Fixed(Small(Nearest(BigMul(x.m, Big(Pow10(d))), -x.e, FALSE)), d)

\* f"{a / b:.<digits>f}" of the numbers a / 10^scale and b / 10^scale
QuotientText(a, b, scale, digits) ==
  FloatFixed(FloatDiv(Double(a, Pow10(scale)), Double(b, Pow10(scale))), digits)

\* f"{(1 - a / b) * 100:.<digits>f}" of the numbers a / 10^scale and b / 10^scale
GainText(a, b, scale, digits) ==
  FloatFixed(
    FloatMul(FloatSub(Double(1, 1),
                      FloatDiv(Double(a, Pow10(scale)), Double(b, Pow10(scale)))),
             Double(100, 1)),
    digits)

\* a simple statement that calls into the package: the callable, the local it
\* is a method of, the locals and the literals passed, the local assigned
Stmt(op, self, objs, lits, target) ==
  [op |-> op, self |-> self, objs |-> objs, lits |-> lits, target |-> target]

CallTo(op, self, objs, lits, target) ==
  [kind |-> "call"] @@ Stmt(op, self, objs, lits, target)

\* x = C(...) with no argument the model follows but literals
New(op, lits, target) == CallTo(op, "", << >>, lits, target)

\* [C(...) for i in range(count)]: the calls of a comprehension, bound to
\* target[0], target[1], ...
Each(op, count, lits, target) ==
  [kind |-> "each", op |-> op, count |-> count, lits |-> lits, target |-> target]

\* x = obj.attr...: a value read from an object of the package
Read(obj, attr, target) == [kind |-> "read", obj |-> obj, attr |-> attr, target |-> target]

\* x = np.mean(obj.attr): a number
Mean(obj, attr, target, values) ==
  [kind |-> "mean", obj |-> obj, attr |-> attr, target |-> target, values |-> values]

\* print("...") and print(f"...") without a field
Lit == [kind |-> "lit"]

\* print(f"...") of values the function itself holds; nl for a leading "\n"
Txt(text, nl) == [kind |-> "txt", text |-> text, nl |-> nl]

\* print(f"text{obj...}suffix") of a value of the package shown by str()
Val(text, suffix) == [kind |-> "val", text |-> text, suffix |-> suffix]

\* print(f"text{x:fmt}suffix") of a number: the attribute attr of the object
\* of local obj, or the local attr when obj is ""; fmt "d" for an integer,
\* "f" for .<digits>f, "r" for str() of a float
Num(text, obj, attr, values, fmt, digits, suffix) ==
  [kind |-> "num", text |-> text, obj |-> obj, attr |-> attr, values |-> values,
   fmt |-> fmt, digits |-> digits, suffix |-> suffix]

\* print(f"text{a/b:.<digits>f}suffix") of numbers held in units of
\* 10^-scale; a is the number const when nattr is ""
Ratio(text, nobj, nattr, const, dobj, dattr, scale, digits, suffix) ==
  [kind |-> "ratio", text |-> text, nobj |-> nobj, nattr |-> nattr, const |-> const,
   dobj |-> dobj, dattr |-> dattr, scale |-> scale, digits |-> digits,
   suffix |-> suffix]

\* for ... in <count items>: the loop whose body ends at line last; reads
\* when the items are read from an object of the package
For(count, last, nested, reads) ==
  [kind |-> "for", count |-> count, last |-> last, nested |-> nested,
   reads |-> reads]

\* x = <literal> and x[k] = y of locals
Bind == [kind |-> "bind"]

Ret == [kind |-> "ret"]

Item(seq, k) == IF k \in DOMAIN seq THEN seq[k] ELSE seq[1]

Least(a, b) == IF a < b THEN a ELSE b

\* loom_getting_started.py:205-209, the keys of `codes` in insertion order
CodeNames ==
  << "Shor Code (9 qubits)", "Steane Code (7 qubits)", "Five Qubit Perfect Code" >>

\* loom_getting_started.py:420, distances
Distances == << 3, 5, 7 >>

\* deltakit_getting_started.py:409-422, the keys of `gate_sets` in insertion order
Platforms == << "Superconducting", "Trapped Ion", "Neutral Atom" >>

\* loom_getting_started.py:170 and 421, 0.001 in units of 0.0001
PhysicalErrorRate == 10

\* loom_getting_started.py:88, the length of the slice [:3]
SliceLength == 3

\* numbers the package can hold, in units of the last decimal place printed:
\* len(eka.stabilizers); a mean of logical errors (.4f); gate_error_rate;
\* encoding_rate and check_sparsity (.3f); num_gates.  Among the quotients
\* are 0.001 / 0.0016 and 203 / 200, halfway between two decimals of .2f
StabilizerCounts == { 0, 2, 3, 8 }
MeanValues == { 5, 16 }
GateErrorValues == { 10, 20 }
EncodingValues == { 56, 83 }
SparsityValues == { 42 }
GateCounts == { 100, 200 }
TranspiledCounts == { 150, 203 }
FidelityEstimates == { 990000, 999500 }
LeakageValues == { 100 }
\* results_adaptive.logical_error_rate (.6f): a rate just above one of
\* ErrorRateValues gives a small negative improvement
AdaptiveRateValues == { 1250, 30001 }
\* values results.logical_error_rate, results.decode_time_ms,
\* results.logical_fidelity and estimate_threshold(...) can have, in units of
\* the last decimal place printed
ErrorRateValues == { 1250, 30000 }
TimeValues == { 85, 1240 }
FidelityValues == { 9000, 9987 }
ThresholdValues == { 57, 100 }

\* the number read before from attribute attr of the object of local obj, or
\* held by the local attr when obj is ""; 0 when nothing was read
Memo(obj, attr) ==
  IF obj = ""
  THEN IF << 0, attr >> \in DOMAIN floats THEN floats[<< 0, attr >>] ELSE 0
  ELSE IF obj \in DOMAIN refs /\ << refs[obj], attr >> \in DOMAIN floats
       THEN floats[<< refs[obj], attr >>] ELSE 0

LoomProgram ==
  CASE input.fn = "example_surface_code" ->
         78 :> New("RotatedSurfaceCodeFactory", "distance=3", "code_factory") @@
         81 :> CallTo("generate_code", "code_factory", << >>, "", "code") @@
         82 :> CallTo("to_eka", "code", << >>, "", "eka") @@
         85 :> Num("Total stabilizers: ", "eka", "stabilizers", StabilizerCounts,
                   "d", 0, "") @@
         88 :> For(Least(SliceLength, Memo("eka", "stabilizers")), 89, FALSE, TRUE) @@
         89 :> Val("Stabilizer " \o ToString(it - 1) \o ": ", "") @@
         91 :> Ret
    [] input.fn = "example_stim_simulation" ->
         155 :> New("RepetitionCodeFactory", "distance=3", "code_factory") @@
         156 :> CallTo("generate_code", "code_factory", << >>, "", "code") @@
         157 :> CallTo("to_eka", "code", << >>, "", "eka") @@
         160 :> CallTo("Circuit", "", << "eka" >>, "", "circuit") @@
         161 :> CallTo("add_logical_initialization", "circuit", << >>, "'Z'", "") @@
         162 :> CallTo("add_syndrome_measurement_round", "circuit", << >>, "", "") @@
         163 :> CallTo("add_logical_measurement", "circuit", << >>, "'Z'", "") @@
         166 :> New("StimBackend", "", "stim_backend") @@
         167 :> CallTo("from_loom_circuit", "stim_backend", << "circuit" >>, "",
                     "stim_circuit") @@
         170 :> Bind @@
         171 :> CallTo("add_noise", "stim_backend", << "stim_circuit" >>,
                     "error_rate=0.001", "stim_circuit") @@
         177 :> CallTo("Executor", "", << "stim_backend" >>, "", "executor") @@
         178 :> CallTo("run", "executor", << "stim_circuit" >>,
                     "shots=" \o ToString(input.num_shots), "results") @@
         181 :> Mean("results", "logical_errors", "logical_error_rate", MeanValues) @@
         182 :> Txt("Physical error rate: " \o DecimalStr(PhysicalErrorRate, 4), FALSE) @@
         183 :> Num("Logical error rate: ", "", "logical_error_rate", { }, "f", 4, "") @@
         184 :> Ratio("Error suppression: ", "", "", PhysicalErrorRate,
                      "", "logical_error_rate", 4, 2, "x") @@
         186 :> Ret
    [] input.fn = "example_various_codes" ->
         206 :> New("ShorCodeFactory", "", CodeNames[1]) @@
         207 :> New("SteaneCodeFactory", "", CodeNames[2]) @@
         208 :> New("FiveQubitPerfectCodeFactory", "", CodeNames[3]) @@
         211 :> For(Len(CodeNames), 219, FALSE, FALSE) @@
         212 :> CallTo("generate_code", Item(CodeNames, it), << >>, "", "code") @@
         213 :> CallTo("to_eka", "code", << >>, "", "eka") @@
         215 :> Txt(Item(CodeNames, it) \o ":", TRUE) @@
         216 :> Val("  Data qubits: ", "") @@
         217 :> Val("  Ancilla qubits: ", "") @@
         218 :> Val("  Stabilizers: ", "") @@
         219 :> Val("  Code distance: ", "")
    [] input.fn = "example_lattice_surgery" ->
         237 :> New("RotatedSurfaceCodeFactory", "distance=3", "patch1_factory") @@
         238 :> New("RotatedSurfaceCodeFactory", "distance=3", "patch2_factory") @@
         240 :> CallTo("generate_code", "patch1_factory", << >>, "", "patch1") @@
         241 :> CallTo("generate_code", "patch2_factory", << >>, "", "patch2") @@
         244 :> New("LatticeSurgeryBlock", "", "ls_block") @@
         247 :> CallTo("add_patch", "ls_block", << "patch1" >>, "position=(0, 0)", "") @@
         248 :> CallTo("add_patch", "ls_block", << "patch2" >>, "position=(3, 0)", "") @@
         252 :> CallTo("add_cnot_operation", "ls_block", << "patch1", "patch2" >>, "", "") @@
         255 :> CallTo("to_circuit", "ls_block", << >>, "", "circuit") @@
         257 :> Val("Lattice surgery circuit depth: ", "") @@
         258 :> Val("Number of operations: ", "") @@
         260 :> Ret
    [] input.fn = "example_custom_eka" ->
         279 :> New("Eka", "", "eka") @@
         282 :> Each("Qubit", 3, "idx=" \o ToString(inner) \o ", type='data'",
                     "data_qubits") @@
         283 :> Each("Qubit", 2, "idx=" \o ToString(inner + 3) \o ", type='ancilla'",
                     "ancilla_qubits") @@
         286 :> CallTo("add_qubits", "eka",
                     << "data_qubits[0]", "data_qubits[1]", "data_qubits[2]" >>, "", "") @@
         287 :> CallTo("add_qubits", "eka",
                     << "ancilla_qubits[0]", "ancilla_qubits[1]" >>, "", "") @@
         290 :> CallTo("Stabilizer", "",
                     << "data_qubits[0]", "data_qubits[1]", "ancilla_qubits[0]" >>,
                     "pauli_string='ZZ'", "stab1") @@
         295 :> CallTo("Stabilizer", "",
                     << "data_qubits[1]", "data_qubits[2]", "ancilla_qubits[1]" >>,
                     "pauli_string='ZZ'", "stab2") @@
         301 :> CallTo("add_stabilizers", "eka", << "stab1", "stab2" >>, "", "") @@
         304 :> New("Block", "'initialization'", "init_block") @@
         305 :> CallTo("add_operation", "init_block",
                     << "data_qubits[0]", "data_qubits[1]", "data_qubits[2]" >>,
                     "'init'", "") @@
         307 :> New("Block", "'syndrome_measurement'", "measurement_block") @@
         308 :> CallTo("add_syndrome_measurements", "measurement_block", << >>,
                     "eka.stabilizers", "") @@
         310 :> CallTo("add_blocks", "eka", << "init_block", "measurement_block" >>, "", "") @@
         312 :> Lit @@
         313 :> Val("  ", " data qubits") @@
         314 :> Val("  ", " ancilla qubits") @@
         315 :> Val("  ", " stabilizers") @@
         317 :> Ret
    [] input.fn = "example_decoding" ->
         380 :> New("RotatedSurfaceCodeFactory", "distance=3", "code_factory") @@
         381 :> CallTo("generate_code", "code_factory", << >>, "", "code") @@
         382 :> CallTo("to_eka", "code", << >>, "", "eka") @@
         385 :> CallTo("Circuit", "", << "eka" >>, "", "circuit") @@
         386 :> CallTo("add_logical_initialization", "circuit", << >>, "'Z'", "") @@
         387 :> CallTo("add_syndrome_measurement_round", "circuit", << >>, "", "") @@
         390 :> New("StimBackend", "", "stim_backend") @@
         391 :> CallTo("from_loom_circuit", "stim_backend", << "circuit" >>, "",
                     "stim_circuit") @@
         392 :> CallTo("add_noise", "stim_backend", << "stim_circuit" >>,
                     "error_rate=0.01", "stim_circuit") @@
         395 :> CallTo("Executor", "", << "stim_backend" >>, "", "executor") @@
         396 :> CallTo("run", "executor", << "stim_circuit" >>, "shots=1", "results") @@
         397 :> Read("results", "syndromes[0]", "syndromes") @@
         400 :> CallTo("MinimumWeightPerfectMatching", "", << "eka" >>, "", "decoder") @@
         401 :> CallTo("decode", "decoder", << "syndromes" >>, "", "correction") @@
         403 :> Val("Measured syndromes: ", "") @@
         404 :> Val("Proposed correction: ", "") @@
         406 :> Ret
    [] input.fn = "example_threshold_analysis" ->
         420 :> Bind @@ 421 :> Bind @@ 422 :> Bind @@ 424 :> Bind @@
         426 :> For(Len(Distances), 450, FALSE, FALSE) @@
         428 :> New("RotatedSurfaceCodeFactory",
                    "distance=" \o ToString(Item(Distances, it)), "code_factory") @@
         429 :> CallTo("generate_code", "code_factory", << >>, "", "code") @@
         430 :> CallTo("to_eka", "code", << >>, "", "eka") @@
         433 :> CallTo("Circuit", "", << "eka" >>, "", "circuit") @@
         434 :> CallTo("add_logical_initialization", "circuit", << >>, "'Z'", "") @@
         435 :> For(Item(Distances, it), 436, TRUE, FALSE) @@
         436 :> CallTo("add_syndrome_measurement_round", "circuit", << >>, "", "") @@
         437 :> CallTo("add_logical_measurement", "circuit", << >>, "'Z'", "") @@
         440 :> New("StimBackend", "", "stim_backend") @@
         441 :> CallTo("from_loom_circuit", "stim_backend", << "circuit" >>, "",
                     "stim_circuit") @@
         442 :> CallTo("add_noise", "stim_backend", << "stim_circuit" >>,
                     "error_rate=0.001", "stim_circuit") @@
         444 :> CallTo("Executor", "", << "stim_backend" >>, "", "executor") @@
         445 :> CallTo("run", "executor", << "stim_circuit" >>, "shots=1000", "result") @@
         447 :> Mean("result", "logical_errors", "logical_error_rate", ErrorRateValues) @@
         448 :> Bind @@
         450 :> Num("Distance " \o ToString(Item(Distances, it))
                      \o ": Logical error rate = ",
                    "", "logical_error_rate", { }, "f", 6, "") @@
         452 :> Lit @@ 453 :> Lit @@
         455 :> Ret
    [] OTHER -> << >>

DeltakitProgram ==
  CASE input.fn = "example_setup" ->
         46 :> New("Client", "", "client") @@
         48 :> Lit @@
         49 :> Txt("  Client initialized: True", FALSE) @@
         50 :> Val("  Cloud services available: ", "") @@
         51 :> Lit @@
         53 :> Ret
    [] input.fn = "example_repetition_code" ->
         70 :> New("RepetitionCode", "distance=3", "code") @@
         72 :> Lit @@
         73 :> Val("  Distance: ", "") @@
         74 :> Val("  Physical qubits: ", "") @@
         75 :> Val("  Data qubits: ", "") @@
         76 :> Val("  Ancilla qubits: ", "") @@
         79 :> CallTo("generate_circuit", "code", << >>, "", "circuit") @@
         81 :> Lit @@
         82 :> Val("  Gates: ", "") @@
         83 :> Val("  Depth: ", "") @@
         84 :> Val("  Measurements: ", "") @@
         86 :> Ret
    [] input.fn = "example_surface_code" ->
         102 :> New("SurfaceCode", "distance=3", "code") @@
         104 :> Lit @@
         105 :> Val("  Distance: ", "") @@
         106 :> Val("  Physical qubits: ", "") @@
         107 :> Val("  Logical qubits: ", "") @@
         110 :> Val("  X-type stabilizers: ", "") @@
         111 :> Val("  Z-type stabilizers: ", "") @@
         114 :> CallTo("syndrome_extraction_circuit", "code", << >>, "", "syndrome_circuit") @@
         116 :> Lit @@
         117 :> Val("  Circuit depth: ", "") @@
         118 :> Val("  Stabilizer measurements: ", "") @@
         120 :> Ret
    [] input.fn = "example_memory_experiment" ->
         136 :> New("SurfaceCode", "distance=3", "code") @@
         139 :> CallTo("MemoryExperiment", "", << "code" >>,
                     "num_rounds=" \o ToString(input.num_rounds) \o ", initial_state",
                     "experiment") @@
         146 :> New("NoiseModel",
                    "gate_error_rate=0.001, measurement_error_rate=0.001, idle_error_rate=0.0001",
                    "noise") @@
         153 :> CallTo("add_noise", "experiment", << "noise" >>, "", "") @@
         156 :> CallTo("run", "experiment", << >>, "shots=" \o ToString(input.num_shots),
                     "results") @@
         159 :> Lit @@
         160 :> Txt("  QEC rounds: " \o ToString(input.num_rounds), FALSE) @@
         161 :> Txt("  Shots: " \o ToString(input.num_shots), FALSE) @@
         162 :> Num("  Logical error rate: ", "results", "logical_error_rate", MeanValues,
                    "f", 4, "") @@
         163 :> Num("  Physical error rate: ", "noise", "gate_error_rate", GateErrorValues,
                    "r", 4, "") @@
         164 :> Ratio("  Error suppression: ", "noise", "gate_error_rate", 0,
                      "results", "logical_error_rate", 4, 2, "x") @@
         166 :> Ret
    [] input.fn = "example_noise_models" ->
         225 :> New("NoiseModel", "noise_type='depolarizing', error_rate=0.001",
                    "depolarizing") @@
         232 :> New("NoiseModel",
                    "noise_type='biased', error_rate=0.001, bias_ratio=10.0, bias_type='Z'",
                    "biased") @@
         240 :> New("NoiseModel",
                    "single_qubit_gate_error=0.0001, two_qubit_gate_error=0.001, "
                      \o "measurement_error=0.001, idle_error=0.00001",
                    "circuit_noise") @@
         248 :> New("NoiseModel", "gate_error_rate=0.001, leakage_rate=0.0001",
                    "leakage_noise") @@
         253 :> Lit @@ 254 :> Lit @@ 255 :> Lit @@ 256 :> Lit @@ 257 :> Lit @@
         259 :> Ret
    [] input.fn = "example_qldpc_codes" ->
         280 :> New("BivariateProductCode", "l=6, m=6", "code") @@
         285 :> Lit @@
         286 :> Val("  Physical qubits: ", "") @@
         287 :> Val("  Logical qubits: ", "") @@
         288 :> Val("  Distance: ", "") @@
         289 :> Num("  Encoding rate: ", "code", "encoding_rate", EncodingValues,
                    "f", 3, "") @@
         292 :> Num("  Check matrix sparsity: ", "code", "check_sparsity", SparsityValues,
                    "f", 3, "") @@
         295 :> CallTo("generate_circuit", "code", << >>, "", "circuit") @@
         297 :> Lit @@
         298 :> Val("  Depth: ", "") @@
         299 :> Val("  Two-qubit gates: ", "") @@
         301 :> Ret
    [] input.fn = "example_leakage_simulation" ->
         317 :> New("SurfaceCode", "distance=3", "code") @@
         320 :> CallTo("LeakageSimulator", "", << "code" >>,
                     "leakage_rate=0.0001, leakage_detection=True, herald_efficiency=0.9",
                     "simulator") @@
         328 :> CallTo("MemoryExperiment", "", << "code" >>, "num_rounds=5", "experiment") @@
         329 :> CallTo("set_simulator", "experiment", << "simulator" >>, "", "") @@
         331 :> CallTo("run", "experiment", << >>, "shots=1000", "results") @@
         333 :> Lit @@
         334 :> Val("  Leakage events detected: ", "") @@
         335 :> Num("  Leakage rate: ", "results", "leakage_rate", LeakageValues,
                    "f", 6, "") @@
         336 :> Num("  Logical error rate (with leakage): ", "results",
                    "logical_error_rate", ErrorRateValues, "f", 6, "") @@
         339 :> New("AdaptiveDecoder", "leakage_aware=True", "adaptive_decoder") @@
         340 :> CallTo("run", "experiment", << "adaptive_decoder" >>, "shots=1000",
                     "results_adaptive") @@
         342 :> Lit @@
         343 :> Num("  Logical error rate: ", "results_adaptive", "logical_error_rate",
                    AdaptiveRateValues, "f", 6, "") @@
         344 :> [kind |-> "gain"] @@
         346 :> Ret
    [] input.fn = "example_transpilation" ->
         405 :> New("SurfaceCode", "distance=3", "code") @@
         406 :> CallTo("syndrome_extraction_circuit", "code", << >>, "", "circuit") @@
         410 :> New("NativeGateSet", "single_qubit=['RZ', 'SX'], two_qubit=['CZ']",
                    Platforms[1]) @@
         414 :> New("NativeGateSet", "single_qubit=['RZ', 'RX', 'RY'], two_qubit=['XX']",
                    Platforms[2]) @@
         418 :> New("NativeGateSet", "single_qubit=['RZ', 'RX'], two_qubit=['CZ']",
                    Platforms[3]) @@
         424 :> For(Len(Platforms), 433, FALSE, FALSE) @@
         426 :> CallTo("Transpiler", "", << Item(Platforms, it) >>, "", "transpiler") @@
         427 :> CallTo("transpile", "transpiler", << "circuit" >>, "", "transpiled") @@
         429 :> Txt(Item(Platforms, it) \o " Platform:", TRUE) @@
         430 :> Num("  Original gates: ", "circuit", "num_gates", GateCounts, "d", 0, "") @@
         431 :> Num("  Transpiled gates: ", "transpiled", "num_gates", TranspiledCounts,
                    "d", 0, "") @@
         432 :> Ratio("  Gate overhead: ", "transpiled", "num_gates", 0,
                      "circuit", "num_gates", 0, 2, "x") @@
         433 :> Num("  Estimated fidelity: ", "transpiled", "estimated_fidelity",
                    FidelityEstimates, "f", 6, "") @@
         435 :> Ret
    [] input.fn = "example_visualization" ->
         449 :> New("SurfaceCode", "distance=3", "code") @@
         450 :> CallTo("MemoryExperiment", "", << "code" >>, "num_rounds=5", "experiment") @@
         453 :> New("NoiseModel", "gate_error_rate=0.001", "noise") @@
         454 :> CallTo("add_noise", "experiment", << "noise" >>, "", "") @@
         455 :> CallTo("run", "experiment", << >>, "shots=100", "results") @@
         458 :> New("Visualizer", "", "viz") @@
         461 :> CallTo("plot_code_layout", "viz", << "code" >>,
                     "save_path='surface_code_layout.png'", "") @@
         462 :> Lit @@
         465 :> CallTo("plot_syndrome_pattern", "viz", << "code" >>,
                     "results.syndromes[0], save_path='syndrome_pattern.png'", "") @@
         470 :> Lit @@
         473 :> CallTo("plot_error_rate_evolution", "viz", << "results" >>,
                     "save_path='error_evolution.png'", "") @@
         477 :> Lit @@
         480 :> New("AnalysisTools", "", "analysis") @@
         483 :> CallTo("error_statistics", "analysis", << "results" >>, "", "stats") @@
         484 :> Lit @@
         485 :> Num("  Mean logical error rate: ", "stats", "mean_error_rate",
                    ErrorRateValues, "f", 6, "") @@
         486 :> Num("  Std deviation: ", "stats", "std_error_rate", ErrorRateValues,
                    "f", 6, "") @@
         487 :> [kind |-> "interval"] @@
         489 :> Ret
    [] input.fn = "example_deltaflow_integration" ->
         507 :> New("SurfaceCode", "distance=5", "code") @@
         508 :> CallTo("MemoryExperiment", "", << "code" >>, "num_rounds=10", "experiment") @@
         511 :> New("DeltaflowConnector", "", "connector") @@
         514 :> CallTo("compile", "connector", << "experiment" >>,
                     "target_hardware='deltaflow_v2', optimization_level=2",
                     "deltaflow_job") @@
         520 :> Lit @@ 521 :> Lit @@
         522 :> Val("  Compiled circuit depth: ", "") @@
         523 :> Val("  Estimated runtime: ", " ms") @@
         524 :> Lit @@
         530 :> Lit @@ 531 :> Lit @@
         533 :> Ret
    [] OTHER -> << >>

\* the statements of the function that runs
Program ==
  CASE input.script = "loom" -> LoomProgram
    [] input.script = "deltakit" -> DeltakitProgram
    [] OTHER -> << >>

\* the statement at pc is of this kind
Kind(k) == pc \in DOMAIN Program /\ Program[pc].kind = k

\* the file and the function that runs
Fn == << input.script, input.fn >>

\* the body of the function that runs
ExampleBody ==
  CASE Fn = << "loom", "example_memory_experiment" >>    -> MemoryExperimentBody
    [] Fn = << "deltakit", "example_decoding_comparison" >>  -> DecodingComparisonBody
    [] Fn = << "deltakit", "example_stability_experiment" >> -> StabilityBody
    [] OTHER -> << >>

\* the lines of the statements of the function that runs
ExampleLines == Range(ExampleBody) \cup DOMAIN Program

\* the statement after `line` in the body, 0 at its end
After(line) ==
  LET later == { l \in ExampleLines : l > line }
  IN  IF later = {} THEN 0 ELSE CHOOSE l \in later : \A m \in later : l <= m

ExtStatements ==
  CASE Fn = << "loom", "example_memory_experiment" >> ->
         111 :> Stmt("RepetitionCodeFactory", "", << >>, "distance=5", "code_factory") @@
         112 :> Stmt("generate_code", "code_factory", << >>, "", "code") @@
         113 :> Stmt("to_eka", "code", << >>, "", "eka") @@
         116 :> Stmt("Circuit", "", << "eka" >>, "", "circuit") @@
         119 :> Stmt("add_logical_initialization", "circuit", << >>, "'Z'", "") @@
         124 :> Stmt("add_syndrome_measurement_round", "circuit", << >>, "", "") @@
         127 :> Stmt("add_logical_measurement", "circuit", << >>, "'Z'", "") @@
         130 :> Stmt("Interpretation", "", << "circuit" >>, "", "interpretation")
    [] Fn = << "deltakit", "example_decoding_comparison" >> ->
         181 :> Stmt("SurfaceCode", "", << >>, "distance=5", "code") @@
         185 :> Stmt("Decoder", "", << >>, "'minimum_weight_perfect_matching'", "MWPM") @@
         186 :> Stmt("LCDDecoder", "", << >>, "", "LCD") @@
         187 :> Stmt("BPACDecoder", "", << >>, "", "BP-AC") @@
         191 :> Stmt("MemoryExperiment", "", << "code" >>, "num_rounds=3", "experiment") @@
         192 :> Stmt("NoiseModel", "", << >>, "gate_error_rate=0.001", "noise") @@
         193 :> Stmt("add_noise", "experiment", << "noise" >>, "", "")
    [] Fn = << "deltakit", "example_stability_experiment" >> ->
         361 :> Stmt("SurfaceCode", "", << >>, "distance=5", "code") @@
         370 :> Stmt("StabilityExperiment", "", << "code" >>,
                     "num_rounds=10, target_fidelity=0.99", "experiment") @@
         378 :> Stmt("add_noise", "experiment", << "noise" >>, "", "")
    [] OTHER ->
         [l \in { l \in DOMAIN Program : Program[l].kind = "call" } |-> Program[l]]

\* deltakit_getting_started.py:184-188, the keys of `decoders` in insertion order
DecoderNames == << "MWPM", "LCD", "BP-AC" >>

\* deltakit_getting_started.py:364, error_rates, in units of 0.0001
ErrorRates == << 1, 3, 10, 30, 100 >>

\* the decimal places of the format specs .6f, .2f and .4f
ErrorRateDigits == 6
TimeDigits == 2
RateDigits == 4

\* deltakit_getting_started.py:344, the decimal places of the format spec .1f
GainDigits == 1

\* the statement that runs after the simple statement at `line`: the header
\* of the loop whose body ends there, or the statement that follows
Succ(line) ==
  LET headers == { h \in DOMAIN Program :
                     Program[h].kind = "for" /\ Program[h].last = line }
  IN  IF Fn = << "loom", "example_memory_experiment" >> /\ line = 124 THEN 122
      ELSE IF headers # { } THEN CHOOSE h \in headers : TRUE
      ELSE After(line)

\* a call into the package as the package sees it
CallRecord(at, op, self, objs, lits, num, map, ret) ==
  [at |-> at, op |-> op, self |-> self, objs |-> objs, lits |-> lits,
   num |-> num, map |-> map, ret |-> ret]

\* the object a local refers to
Ref(v) == refs[v]

\* the first statement of each function
Starts ==
  << "loom", "example_surface_code" >> :> 78 @@
  << "loom", "example_memory_experiment" >> :> 111 @@
  << "loom", "example_stim_simulation" >> :> 155 @@
  << "loom", "example_various_codes" >> :> 206 @@
  << "loom", "example_lattice_surgery" >> :> 237 @@
  << "loom", "example_custom_eka" >> :> 279 @@
  << "loom", "example_decoding" >> :> 380 @@
  << "loom", "example_threshold_analysis" >> :> 420 @@
  << "deltakit", "example_setup" >> :> 46 @@
  << "deltakit", "example_repetition_code" >> :> 70 @@
  << "deltakit", "example_surface_code" >> :> 102 @@
  << "deltakit", "example_memory_experiment" >> :> 136 @@
  << "deltakit", "example_decoding_comparison" >> :> 181 @@
  << "deltakit", "example_noise_models" >> :> 225 @@
  << "deltakit", "example_qldpc_codes" >> :> 280 @@
  << "deltakit", "example_leakage_simulation" >> :> 317 @@
  << "deltakit", "example_stability_experiment" >> :> 361 @@
  << "deltakit", "example_transpilation" >> :> 405 @@
  << "deltakit", "example_visualization" >> :> 449 @@
  << "deltakit", "example_deltaflow_integration" >> :> 507

\* the arguments a function can be called with; it ignores those it has not
Arguments ==
  [f \in DOMAIN Starts |->
     IF f = << "loom", "example_memory_experiment" >>
     THEN { [num_cycles |-> n, num_shots |-> 1000, num_rounds |-> 10] : n \in -1..MaxCycles }
     ELSE IF f = << "loom", "example_stim_simulation" >>
     THEN { [num_cycles |-> 5, num_shots |-> n, num_rounds |-> 10] : n \in { 1, 1000 } }
     ELSE IF f = << "deltakit", "example_memory_experiment" >>
     THEN { [num_cycles |-> 5, num_shots |-> n, num_rounds |-> r]
            : n \in { 1000 }, r \in { 0, 10 } }
     ELSE { [num_cycles |-> 5, num_shots |-> 1000, num_rounds |-> 10] }]

\* a function of a getting-started file called on its own, its package there
ExampleInputs ==
  UNION { { a @@ Input(f[1], f[2], Starts[f], Profiles, Categories, Comparison,
                       IF f[1] = "loom" THEN { "loom", "numpy" } ELSE { "deltakit" })
            : a \in Arguments[f] }
          : f \in DOMAIN Starts }

ExamplesInit ==
  /\ input \in ExampleInputs
  /\ pc = input.start
  /\ stack = << >>
  /\ frameworks = Unbound
  /\ ci = 0
  /\ pi = 0
  /\ comparison = Unbound
  /\ i = 0
  /\ loom_val = ""
  /\ delta_val = ""
  /\ exc = ""
  /\ out = << >>
  /\ err = ""
  /\ run = 1
  /\ marks = << 0 >>
  /\ NoExample

\* the loop variables of lines 122, 197 and 368
cycle == it - 1
decoder_name == DecoderNames[it]
error_rate == ErrorRates[it]

\* the exception of a call into the package leaves the function uncaught
ExtRaise ==
  /\ Raise("Exception")
  /\ UNCHANGED << input, locals, out, run, marks, elocals >>

\* x = f(...), x = y.f(...) or y.f(...) with f of the package: the call is
\* made on the objects the locals refer to, and x is bound to the new object
ExtCall ==
  /\ pc \in DOMAIN ExtStatements
  /\ LET st   == ExtStatements[pc]
         new  == st.target # ""
         id   == IF new THEN heap + 1 ELSE 0
         self == IF st.self = "" THEN 0 ELSE Ref(st.self)
         rec  == CallRecord(pc, st.op, self, [k \in 1..Len(st.objs) |-> Ref(st.objs[k])],
                            st.lits, 0, << >>, id)
     IN  \/ /\ calls' = Append(calls, rec)
            /\ heap' = IF new THEN heap + 1 ELSE heap
            /\ refs' = IF new THEN (st.target :> id) @@ refs ELSE refs
            /\ pc' = Succ(pc)
            /\ UNCHANGED << input, stack, locals, out, err, run, marks, attrs, it,
                            results_comparison, results_by_rate, threshold, inner, floats >>
         \/ ExtRaise

(***************************************************************************)
(* loom_getting_started.py: example_memory_experiment                      *)
(***************************************************************************)
\* ForCycle with a fault: the loop runs once more, range(num_cycles + 1)
ForCycleInclusive ==
  /\ Fn = << "loom", "example_memory_experiment" >> /\ pc = 122
  /\ IF it < input.num_cycles + 1
     THEN it' = it + 1 /\ pc' = 124
     ELSE it' = it /\ pc' = 127
  /\ UNCHANGED << input, stack, locals, out, err, run, marks, refs, heap, attrs,
                  calls, results_comparison, results_by_rate, threshold, inner, floats >>

\* line 122: for cycle in range(num_cycles)
ForCycle ==
  /\ Fn = << "loom", "example_memory_experiment" >> /\ pc = 122
  /\ IF it < input.num_cycles
     THEN it' = it + 1 /\ pc' = 124
     ELSE it' = it /\ pc' = 127
  /\ UNCHANGED << input, stack, locals, out, err, run, marks, refs, heap, attrs,
                  calls, results_comparison, results_by_rate, threshold, inner, floats >>

\* line 132: print(f"Total QEC cycles: {num_cycles}")
PrintCycles ==
  /\ Fn = << "loom", "example_memory_experiment" >> /\ pc = 132
  /\ out' = Append(out, Line(132, "Total QEC cycles: " \o ToString(input.num_cycles)))
  /\ pc' = 133
  /\ UNCHANGED << input, stack, locals, err, run, marks, elocals >>

\* loom_getting_started.py:133-134, the text before the value
InterpretationText ==
  133 :> "Total circuit depth: " @@ 134 :> "Number of measurements: "

\* lines 133-134: print(f"...{interpretation.depth}") and the like, of values
\* the loom package holds
PrintInterpretation ==
  /\ Fn = << "loom", "example_memory_experiment" >> /\ pc \in { 133, 134 }
  /\ \/ \E v \in ExtValues :
          /\ out' = Append(out, Line(pc, InterpretationText[pc] \o v))
          /\ pc' = After(pc)
          /\ UNCHANGED << input, stack, locals, err, run, marks, elocals >>
     \/ ExtRaise

\* lines 136, 209 and 390: return
ReturnExample ==
  /\ \/ Fn = << "loom", "example_memory_experiment" >> /\ pc = 136
     \/ Fn = << "deltakit", "example_decoding_comparison" >> /\ pc = 209
     \/ Fn = << "deltakit", "example_stability_experiment" >> /\ pc = 390
     \/ Kind("ret")
  /\ Step(0)
  /\ UNCHANGED << input, locals, out, err, run, marks, elocals >>

(***************************************************************************)
(* deltakit_getting_started.py: example_decoding_comparison                *)
(***************************************************************************)
\* lines 195 and 366: results_comparison = {}, results_by_rate = {}
BindEmptyDict ==
  /\ \/ /\ Fn = << "deltakit", "example_decoding_comparison" >> /\ pc = 195
        /\ results_comparison' = << >>
        /\ UNCHANGED results_by_rate
     \/ /\ Fn = << "deltakit", "example_stability_experiment" >> /\ pc = 366
        /\ results_by_rate' = << >>
        /\ UNCHANGED results_comparison
  /\ pc' = After(pc)
  /\ UNCHANGED << input, stack, locals, out, err, run, marks, refs, heap, attrs,
                  calls, it, threshold, inner, floats >>

\* line 197: for decoder_name, decoder in decoders.items()
ForDecoder ==
  /\ Fn = << "deltakit", "example_decoding_comparison" >> /\ pc = 197
  /\ IF it < Len(DecoderNames)
     THEN it' = it + 1 /\ pc' = 199
     ELSE it' = it /\ pc' = 209
  /\ UNCHANGED << input, stack, locals, out, err, run, marks, refs, heap, attrs,
                  calls, results_comparison, results_by_rate, threshold, inner, floats >>

\* the values of an attribute that the function reading at `line` can tell
\* apart: an attribute it never reads has one value
ResultsValues(values, line) ==
  IF pc = line THEN values ELSE { CHOOSE v \in values : TRUE }

\* the attributes of a results object
ResultsRead(e, t, f) ==
  [logical_error_rate |-> e, decode_time_ms |-> t, logical_fidelity |-> f]

\* RunExperiment with a fault: every run is made on a new experiment, which
\* has no noise
RunExperimentOnNew ==
  /\ \/ Fn = << "deltakit", "example_decoding_comparison" >> /\ pc = 199
     \/ Fn = << "deltakit", "example_stability_experiment" >> /\ pc = 381
  /\ \/ \E e \in ResultsValues(ErrorRateValues, 199), t \in ResultsValues(TimeValues, 199),
          f \in ResultsValues(FidelityValues, 381) :
          /\ calls' = Append(calls,
               CallRecord(pc, "run", heap + 2,
                          IF pc = 199 THEN << Ref(decoder_name) >> ELSE << >>,
                          IF pc = 199 THEN "shots=1000" ELSE "shots=500",
                          0, << >>, heap + 1))
          /\ heap' = heap + 2
          /\ refs' = ("results" :> heap + 1) @@ ("experiment" :> heap + 2) @@ refs
          /\ attrs' = (heap + 1 :> ResultsRead(e, t, f)) @@ attrs
          /\ pc' = After(pc)
          /\ UNCHANGED << input, stack, locals, out, err, run, marks, it,
                          results_comparison, results_by_rate, threshold, inner, floats >>
     \/ ExtRaise

\* lines 199 and 381: results = experiment.run(shots=1000, decoder=decoder),
\* results = experiment.run(shots=500)
RunExperiment ==
  /\ \/ Fn = << "deltakit", "example_decoding_comparison" >> /\ pc = 199
     \/ Fn = << "deltakit", "example_stability_experiment" >> /\ pc = 381
  /\ \/ \E e \in ResultsValues(ErrorRateValues, 199), t \in ResultsValues(TimeValues, 199),
          f \in ResultsValues(FidelityValues, 381) :
          /\ calls' = Append(calls,
               CallRecord(pc, "run", Ref("experiment"),
                          IF pc = 199 THEN << Ref(decoder_name) >> ELSE << >>,
                          IF pc = 199 THEN "shots=1000" ELSE "shots=500",
                          0, << >>, heap + 1))
          /\ heap' = heap + 1
          /\ refs' = ("results" :> heap + 1) @@ refs
          /\ attrs' = (heap + 1 :> ResultsRead(e, t, f)) @@ attrs
          /\ pc' = After(pc)
          /\ UNCHANGED << input, stack, locals, out, err, run, marks, it,
                          results_comparison, results_by_rate, threshold, inner, floats >>
     \/ ExtRaise

\* lines 200-203: results_comparison[decoder_name] = {...}
StoreComparison ==
  /\ Fn = << "deltakit", "example_decoding_comparison" >> /\ pc = 200
  /\ \/ /\ results_comparison' =
             (decoder_name :>
                [logical_error_rate |-> attrs[Ref("results")].logical_error_rate,
                 decode_time |-> attrs[Ref("results")].decode_time_ms])
             @@ results_comparison
        /\ pc' = 205
        /\ UNCHANGED << input, stack, locals, out, err, run, marks, refs, heap,
                        attrs, calls, it, results_by_rate, threshold, inner, floats >>
     \/ ExtRaise

\* line 205: print(f"\n{decoder_name} Decoder:")
PrintDecoderName ==
  /\ Fn = << "deltakit", "example_decoding_comparison" >> /\ pc = 205
  /\ out' = out \o << Line(205, ""), Line(205, decoder_name \o " Decoder:") >>
  /\ pc' = 206
  /\ UNCHANGED << input, stack, locals, err, run, marks, elocals >>

\* lines 206-207: print(f"  Logical error rate: {results.logical_error_rate:.6f}"),
\* print(f"  Average decode time: {results.decode_time_ms:.2f} ms")
PrintDecoderResult ==
  /\ Fn = << "deltakit", "example_decoding_comparison" >> /\ pc \in { 206, 207 }
  /\ \/ /\ out' = Append(out, Line(pc,
             IF pc = 206
             THEN "  Logical error rate: "
                    \o Fixed(attrs[Ref("results")].logical_error_rate, ErrorRateDigits)
             ELSE "  Average decode time: "
                    \o Fixed(attrs[Ref("results")].decode_time_ms, TimeDigits) \o " ms"))
        /\ pc' = (IF pc = 206 THEN 207 ELSE 197)
        /\ UNCHANGED << input, stack, locals, err, run, marks, elocals >>
     \/ ExtRaise

(***************************************************************************)
(* deltakit_getting_started.py: example_stability_experiment               *)
(***************************************************************************)
\* line 364: error_rates = [...]
BindErrorRates ==
  /\ Fn = << "deltakit", "example_stability_experiment" >> /\ pc = 364
  /\ pc' = 366
  /\ UNCHANGED << input, stack, locals, out, err, run, marks, elocals >>

\* line 368: for error_rate in error_rates
ForRate ==
  /\ Fn = << "deltakit", "example_stability_experiment" >> /\ pc = 368
  /\ IF it < Len(ErrorRates)
     THEN it' = it + 1 /\ pc' = 370
     ELSE it' = it /\ pc' = 387
  /\ UNCHANGED << input, stack, locals, out, err, run, marks, refs, heap, attrs,
                  calls, results_comparison, results_by_rate, threshold, inner, floats >>

\* line 377: noise = NoiseModel(gate_error_rate=error_rate)
NoiseForRate ==
  /\ Fn = << "deltakit", "example_stability_experiment" >> /\ pc = 377
  /\ \/ /\ calls' = Append(calls,
             CallRecord(377, "NoiseModel", 0, << >>, "gate_error_rate=", error_rate,
                        << >>, heap + 1))
        /\ heap' = heap + 1
        /\ refs' = ("noise" :> heap + 1) @@ refs
        /\ pc' = 378
        /\ UNCHANGED << input, stack, locals, out, err, run, marks, attrs, it,
                        results_comparison, results_by_rate, threshold, inner, floats >>
     \/ ExtRaise

\* line 382: results_by_rate[error_rate] = results.logical_fidelity
StoreFidelity ==
  /\ Fn = << "deltakit", "example_stability_experiment" >> /\ pc = 382
  /\ \/ /\ results_by_rate' =
             (error_rate :> attrs[Ref("results")].logical_fidelity) @@ results_by_rate
        /\ pc' = 384
        /\ UNCHANGED << input, stack, locals, out, err, run, marks, refs, heap,
                        attrs, calls, it, results_comparison, threshold, inner, floats >>
     \/ ExtRaise

\* line 384: print(f"Error rate {error_rate:.4f}: Fidelity =
\* {results.logical_fidelity:.4f}")
PrintFidelity ==
  /\ Fn = << "deltakit", "example_stability_experiment" >> /\ pc = 384
  /\ \/ /\ out' = Append(out, Line(384,
             "Error rate " \o Fixed(error_rate, RateDigits) \o ": Fidelity = "
               \o Fixed(attrs[Ref("results")].logical_fidelity, RateDigits)))
        /\ pc' = 368
        /\ UNCHANGED << input, stack, locals, err, run, marks, elocals >>
     \/ ExtRaise

\* EstimateThreshold with a fault: the estimate is made inside the loop, after
\* the first run
EstimateThresholdEarly ==
  /\ Fn = << "deltakit", "example_stability_experiment" >> /\ pc \in { 387, 384 } /\ threshold = 0
  /\ \E t \in ThresholdValues :
       /\ calls' = Append(calls,
            CallRecord(387, "estimate_threshold", Ref("experiment"), << >>, "", 0,
                       results_by_rate, 0))
       /\ threshold' = t
       /\ pc' = (IF pc = 387 THEN 388 ELSE pc)
       /\ UNCHANGED << input, stack, locals, out, err, run, marks, refs, heap,
                       attrs, it, results_comparison, results_by_rate, inner, floats >>

\* line 387: threshold = experiment.estimate_threshold(results_by_rate)
EstimateThreshold ==
  /\ Fn = << "deltakit", "example_stability_experiment" >> /\ pc = 387
  /\ \/ \E t \in ThresholdValues :
          /\ calls' = Append(calls,
               CallRecord(387, "estimate_threshold", Ref("experiment"), << >>, "", 0,
                          results_by_rate, 0))
          /\ threshold' = t
          /\ pc' = 388
          /\ UNCHANGED << input, stack, locals, out, err, run, marks, refs, heap,
                          attrs, it, results_comparison, results_by_rate, inner, floats >>
     \/ ExtRaise

\* line 388: print(f"\nEstimated error threshold: ~{threshold:.4f}")
PrintThreshold ==
  /\ Fn = << "deltakit", "example_stability_experiment" >> /\ pc = 388
  /\ out' = out \o << Line(388, ""),
                      Line(388, "Estimated error threshold: ~" \o Fixed(threshold, RateDigits)) >>
  /\ pc' = 390
  /\ UNCHANGED << input, stack, locals, err, run, marks, elocals >>

(***************************************************************************)
(* The other example functions: one action per kind of statement.          *)
(***************************************************************************)
\* the number a statement reads: where it is kept
Key(obj, attr) == << IF obj = "" THEN 0 ELSE Ref(obj), attr >>

\* x = [C(...) for i in range(count)]: one call per item, item k bound to x[k]
ComprehensionCall ==
  /\ Kind("each")
  /\ LET st == Program[pc]
     IN  IF inner < st.count
         THEN \/ /\ calls' = Append(calls,
                      CallRecord(pc, st.op, 0, << >>, st.lits, 0, << >>, heap + 1))
                 /\ heap' = heap + 1
                 /\ refs' = (st.target \o "[" \o ToString(inner) \o "]" :> heap + 1) @@ refs
                 /\ inner' = inner + 1
                 /\ UNCHANGED << input, pc, stack, locals, out, err, run, marks, attrs,
                                 it, results_comparison, results_by_rate, threshold,
                                 floats >>
              \/ ExtRaise
         ELSE /\ inner' = 0
              /\ pc' = Succ(pc)
              /\ UNCHANGED << input, stack, locals, out, err, run, marks, refs, heap,
                              attrs, calls, it, results_comparison, results_by_rate,
                              threshold, floats >>

\* x = obj.attr...: x is bound to the object read, or the read raises
ReadObject ==
  /\ Kind("read")
  /\ \/ /\ heap' = heap + 1
        /\ refs' = (Program[pc].target :> heap + 1) @@ refs
        /\ pc' = Succ(pc)
        /\ UNCHANGED << input, stack, locals, out, err, run, marks, attrs, calls, it,
                        results_comparison, results_by_rate, threshold, inner, floats >>
     \/ ExtRaise

\* x = np.mean(obj.attr): numpy is called and x is bound to the number
NumpyMean ==
  /\ Kind("mean")
  /\ LET st == Program[pc]
     IN  \/ \E v \in st.values :
              /\ calls' = Append(calls,
                   CallRecord(pc, "mean", 0, << >>, st.obj \o "." \o st.attr, 0, << >>, 0))
              /\ floats' = (<< 0, st.target >> :> v) @@ floats
              /\ pc' = Succ(pc)
              /\ UNCHANGED << input, stack, locals, out, err, run, marks, refs, heap,
                              attrs, it, results_comparison, results_by_rate, threshold,
                              inner >>
         \/ ExtRaise

\* print("...") of a literal
PrintExampleLiteral ==
  /\ Kind("lit")
  /\ out' = Append(out, Literal(pc))
  /\ pc' = Succ(pc)
  /\ UNCHANGED << input, stack, locals, err, run, marks, elocals >>

\* print(f"...") of what the function holds
PrintText ==
  /\ Kind("txt")
  /\ out' = out \o (IF Program[pc].nl THEN << Line(pc, "") >> ELSE << >>)
                \o << Line(pc, Program[pc].text) >>
  /\ pc' = Succ(pc)
  /\ UNCHANGED << input, stack, locals, err, run, marks, elocals >>

\* print(f"...{obj.attr}...") of a value the package holds
PrintValue ==
  /\ Kind("val")
  /\ \/ \E v \in ExtValues :
          /\ out' = Append(out, Line(pc, Program[pc].text \o v \o Program[pc].suffix))
          /\ pc' = Succ(pc)
          /\ UNCHANGED << input, stack, locals, err, run, marks, elocals >>
     \/ ExtRaise

\* print(f"...{x:.4f}...") and the like of a number: a local, or an attribute
\* of an object of the package, which has the value it had when read before;
\* a value that is no number raises
PrintNumber ==
  /\ Kind("num")
  /\ LET st == Program[pc]
         k  == Key(st.obj, st.attr)
     IN  \/ \E v \in (IF k \in DOMAIN floats THEN { floats[k] } ELSE st.values) :
              /\ floats' = (k :> v) @@ floats
              /\ out' = Append(out,
                   Line(pc, st.text \o Format(v, st.fmt, st.digits) \o st.suffix))
              /\ pc' = Succ(pc)
              /\ UNCHANGED << input, stack, locals, err, run, marks, refs, heap, attrs,
                              calls, it, results_comparison, results_by_rate, threshold,
                              inner >>
         \/ ExtRaise

\* print(f"...{a/b:.2f}x") of numbers read before; b = 0.0 or a value that
\* is no number raises
PrintRatio ==
  /\ Kind("ratio")
  /\ LET st    == Program[pc]
         above == IF st.nattr = "" THEN st.const ELSE floats[Key(st.nobj, st.nattr)]
         below == floats[Key(st.dobj, st.dattr)]
     IN  \/ /\ below # 0
            /\ out' = Append(out,
                 Line(pc, st.text \o QuotientText(above, below, st.scale, st.digits)
                            \o st.suffix))
            /\ pc' = Succ(pc)
            /\ UNCHANGED << input, stack, locals, err, run, marks, elocals >>
         \/ ExtRaise

\* deltakit_getting_started.py:344,
\* print(f"  Improvement: {(1 - a/b)*100:.1f}%") of the two logical error
\* rates; b = 0.0 raises
PrintGain ==
  /\ Kind("gain")
  /\ LET adaptive == floats[Key("results_adaptive", "logical_error_rate")]
         plain    == floats[Key("results", "logical_error_rate")]
     IN  \/ /\ plain # 0
            /\ out' = Append(out,
                 Line(pc, "  Improvement: "
                            \o GainText(adaptive, plain, ErrorRateDigits, GainDigits)
                            \o "%"))
            /\ pc' = Succ(pc)
            /\ UNCHANGED << input, stack, locals, err, run, marks, elocals >>
         \/ ExtRaise

\* deltakit_getting_started.py:487, print(f"  95% confidence interval:
\* [{stats['ci_lower']:.6f}, {stats['ci_upper']:.6f}]")
PrintInterval ==
  /\ Kind("interval")
  /\ \/ \E lo \in ErrorRateValues, hi \in ErrorRateValues :
          /\ out' = Append(out,
               Line(pc, "  95% confidence interval: [" \o Fixed(lo, ErrorRateDigits)
                          \o ", " \o Fixed(hi, ErrorRateDigits) \o "]"))
          /\ pc' = Succ(pc)
          /\ UNCHANGED << input, stack, locals, err, run, marks, elocals >>
     \/ ExtRaise

\* for ... in ...: the next item, or the statement after the loop; the
\* header is evaluated when the loop is entered, and a read of the package
\* in it can raise
ForEach ==
  /\ Kind("for")
  /\ LET st    == Program[pc]
         taken == IF st.nested THEN inner ELSE it
         more  == taken < st.count
     IN  \/ /\ pc' = (IF more THEN After(pc) ELSE After(st.last))
            /\ IF st.nested
               THEN inner' = (IF more THEN inner + 1 ELSE 0) /\ it' = it
               ELSE it' = (IF more THEN it + 1 ELSE it) /\ inner' = inner
            /\ UNCHANGED << input, stack, locals, out, err, run, marks, refs, heap,
                            attrs, calls, results_comparison, results_by_rate,
                            threshold, floats >>
         \/ /\ st.reads /\ taken = 0
            /\ ExtRaise

\* x = <literal>, x[k] = y: nothing the package or the output sees
BindLocal ==
  /\ Kind("bind")
  /\ pc' = Succ(pc)
  /\ UNCHANGED << input, stack, locals, out, err, run, marks, elocals >>

ExamplesNext ==
  \/ ExtCall
  \/ ForCycle
  \/ PrintCycles
  \/ PrintInterpretation
  \/ ReturnExample
  \/ BindEmptyDict
  \/ ForDecoder
  \/ RunExperiment
  \/ StoreComparison
  \/ PrintDecoderName
  \/ PrintDecoderResult
  \/ BindErrorRates
  \/ ForRate
  \/ NoiseForRate
  \/ StoreFidelity
  \/ PrintFidelity
  \/ EstimateThreshold
  \/ PrintThreshold
  \/ ComprehensionCall
  \/ ReadObject
  \/ NumpyMean
  \/ PrintExampleLiteral
  \/ PrintText
  \/ PrintValue
  \/ PrintNumber
  \/ PrintRatio
  \/ PrintGain
  \/ PrintInterval
  \/ ForEach
  \/ BindLocal

ExamplesSpec == ExamplesInit /\ [][ExamplesNext]_vars

(***************************************************************************)
(* Vocabulary of the properties.                                           *)
(***************************************************************************)
\* the lines invocation r wrote
Seg(r) ==
  SubSeq(out, marks[r] + 1, IF r < Len(marks) THEN marks[r + 1] ELSE Len(out))

\* the lines of the invocation in progress
CurSeg == Seg(run)

\* the lines of q that the print call at source line n wrote
At(q, n) == SelectSeq(q, LAMBDA e : e.at = n)

Texts(q) == [k \in 1..Len(q) |-> q[k].s]

InComprehensive == input.script = "expanded"
InTable == input.script = "comparison" /\ input.fn = "print_comparison_table"

\* the category loop of lines 125-130 has run to its end in this invocation
LoopDone == InComprehensive /\ err = "" /\ (pc = 0 \/ (pc >= 132 /\ pc < 371))

\* the data lines of the category loop, and of the table
Rows == At(CurSeg, 130)
TableRows == At(CurSeg, 299)

\* the entry has returned to its caller
Returned == pc = 0 /\ err = ""

(***************************************************************************)
(* C1.  When the category loop has run to its end, the output holds, for   *)
(* every requested category in order, its banner followed by exactly one   *)
(* data line per profile, in the insertion order of the profiles, and the  *)
(* line is the profile's name padded to 15, " | " and the profile's value  *)
(* for the category verbatim.  On the literal dataset the profiles are     *)
(* Loom, Deltakit, Stim, PyMatching, qLDPC, MQT QECC, Qiskit.              *)
(***************************************************************************)
DeclaredOrder ==
  << "Loom", "Deltakit", "Stim", "PyMatching", "qLDPC", "MQT QECC", "Qiskit" >>

RECURSIVE Spaces(_)
Spaces(n) == IF n <= 0 THEN "" ELSE " " \o Spaces(n - 1)

OneLinePerProfile ==
  LoopDone =>
    LET ds == input.dataset
        cs == input.categories
        n  == Len(ds)
    IN  /\ Len(Rows) = Len(cs) * n
        /\ \A c \in 1..Len(cs) : \A p \in 1..n :
             LET e == CurSeg[4 + (c - 1) * (4 + n) + 4 + p]
             IN  /\ e.at = 130
                 /\ e.s = ds[p].name \o Spaces(15 - Len(ds[p].name)) \o " | "
                            \o ds[p].details[cs[c]]
        /\ ds = Profiles => [p \in 1..n |-> ds[p].name] = DeclaredOrder

OneLinePerProfileWitness ==
  /\ LoopDone /\ pc = 0
  /\ input.dataset = Profiles
  /\ input.categories = Categories
  /\ Len(Rows) = 35

(***************************************************************************)
(* C2.  On the three profiles Loom, Deltakit, Stim and the category        *)
(* "Type" the category loop prints exactly these three data lines, in this *)
(* order.                                                                  *)
(***************************************************************************)
ThreeProfilesType ==
  (LoopDone /\ input.dataset = SubSeq(Profiles, 1, 3) /\ input.categories = << "Type" >>)
    => Texts(Rows) = << "Loom            | Full-stack QEC toolkit",
                        "Deltakit        | SDK + Learning platform",
                        "Stim            | Stabilizer circuit simulator" >>

ThreeProfilesTypeWitness ==
  /\ LoopDone /\ pc = 0
  /\ input.dataset = SubSeq(Profiles, 1, 3)
  /\ input.categories = << "Type" >>
  /\ Len(Rows) = 3

(***************************************************************************)
(* C3.  As claimed: the table has one header line and exactly as many data *)
(* lines as there are profiles (the columns Loom and Deltakit).  The code  *)
(* prints one data line per entry of the Feature list instead.             *)
(***************************************************************************)
TableDone ==
  /\ input.script = "comparison"
  /\ input.fn \in { "print_comparison_table", "main", "__main__" }
  /\ Returned

HeaderLines == SelectSeq(CurSeg, LAMBDA e : e.at = 293 /\ e.s # "")

ProfileColumns == DOMAIN input.table \ { "Feature" }

OneRowPerProfile ==
  TableDone => Len(HeaderLines) = 1 /\ Len(TableRows) = Cardinality(ProfileColumns)

(***************************************************************************)
(* C3, amended.  The table has one header line and exactly one data line   *)
(* per entry of the Feature list, in list order; data line k holds the     *)
(* feature k, then the value k of Loom and the value k of Deltakit, each   *)
(* left-justified in its column (30, 40, 40) and separated by " | ".       *)
(***************************************************************************)
OneRowPerFeature ==
  TableDone =>
    LET F == input.table["Feature"]
        L == input.table["Loom (Entropica Labs)"]
        D == input.table["Deltakit (Riverlane)"]
    IN  /\ Len(HeaderLines) = 1
        /\ HeaderLines[1].s = "Feature" \o Spaces(23) \o " | " \o "Loom" \o Spaces(36)
                                \o " | " \o "Deltakit" \o Spaces(32)
        /\ Len(TableRows) = Len(F)
        /\ \A k \in 1..Len(F) :
             TableRows[k].s = F[k] \o Spaces(30 - Len(F[k])) \o " | "
                                \o L[k] \o Spaces(40 - Len(L[k])) \o " | "
                                \o D[k] \o Spaces(40 - Len(D[k]))

OneRowPerFeatureWitness ==
  /\ TableDone
  /\ input.fn = "print_comparison_table"
  /\ input.table = Comparison
  /\ Len(TableRows) = 14

(***************************************************************************)
(* C4.  An entry function invoked again in the same process writes the     *)
(* same sequence of lines as the first time.                               *)
(***************************************************************************)
SameOutputEveryRun ==
  \A r \in 1..Len(marks) : (r < run \/ Returned) => Seg(r) = Seg(1)

SameOutputEveryRunWitness ==
  /\ Returned
  /\ run >= 2
  /\ input.fn = "print_comprehensive_comparison"
  /\ input.dataset = Profiles
  /\ input.categories = Categories
  /\ Len(Seg(2)) > 0

(***************************************************************************)
(* C5.  As claimed: a script run as the entry point ends with exit status  *)
(* 0 whatever packages can be imported.  The code ends with status 1 when  *)
(* a module-level import of loom_getting_started.py or                     *)
(* deltakit_getting_started.py fails, or a call of                         *)
(* example_textbook_workflow into deltakit raises.                         *)
(***************************************************************************)
AlwaysExitsZero ==
  (input.fn = "__main__" /\ pc = 0) => ExitStatus = 0

(***************************************************************************)
(* C6.  The table never prints a row with a blank or defaulted cell: every *)
(* row printed holds values that both profile columns have, and when a     *)
(* profile column is shorter than the Feature list the run ends in an      *)
(* IndexError, not a normal return.                                        *)
(***************************************************************************)
ShortColumn ==
  \/ Len(input.table["Loom (Entropica Labs)"]) < Len(input.table["Feature"])
  \/ Len(input.table["Deltakit (Riverlane)"]) < Len(input.table["Feature"])

NoBlankCell ==
  InTable =>
    LET F == input.table["Feature"]
        L == input.table["Loom (Entropica Labs)"]
        D == input.table["Deltakit (Riverlane)"]
    IN  /\ \A k \in 1..Len(TableRows) :
             /\ k <= Len(F) /\ k <= Len(L) /\ k <= Len(D)
             /\ TableRows[k].s = F[k] \o Spaces(30 - Len(F[k])) \o " | "
                                   \o L[k] \o Spaces(40 - Len(L[k])) \o " | "
                                   \o D[k] \o Spaces(40 - Len(D[k]))
        /\ (ShortColumn /\ pc = 0) => err = "IndexError"

NoBlankCellWitness ==
  /\ InTable
  /\ ShortColumn
  /\ err = "IndexError"
  /\ Len(TableRows) = 1

(***************************************************************************)
(* C7.  The category loop fails fast on a missing key: every data line     *)
(* written holds a value its profile has, a dataset in which some profile  *)
(* lacks a requested category never lets the run return normally, and the  *)
(* KeyError is raised at the first such profile with the run ended there,  *)
(* no line written for that profile or after it.                           *)
(***************************************************************************)
Incomplete ==
  \E p \in 1..Len(input.dataset) : \E c \in 1..Len(input.categories) :
    input.categories[c] \notin DOMAIN input.dataset[p].details

FailsFastOnMissingKey ==
  InComprehensive =>
    LET ds == input.dataset
        cs == input.categories
        n  == Len(ds)
    IN  /\ \A j \in 1..Len(Rows) :
             LET c == ((j - 1) \div n) + 1
                 p == ((j - 1) % n) + 1
             IN  /\ c <= Len(cs)
                 /\ cs[c] \in DOMAIN ds[p].details
                 /\ Rows[j].s = ds[p].name \o Spaces(15 - Len(ds[p].name)) \o " | "
                                  \o ds[p].details[cs[c]]
        /\ (Incomplete /\ pc = 0) => err = "KeyError"
        /\ err = "KeyError" =>
             /\ pc = 0
             /\ cs[ci] \notin DOMAIN ds[pi].details
             /\ \A c \in 1..ci : \A p \in 1..n :
                  (c < ci \/ p < pi) => cs[c] \in DOMAIN ds[p].details
             /\ Len(Rows) = (ci - 1) * n + (pi - 1)
             /\ out[Len(out)].at # 130 \/ pi > 1

FailsFastOnMissingKeyWitness ==
  /\ InComprehensive
  /\ err = "KeyError"
  /\ pi = 2
  /\ Len(Rows) = 1

(***************************************************************************)
(* C8.  As claimed: a dataset with a missing field is reported before any  *)
(* line of the report has been written.  The code raises the KeyError in   *)
(* the middle of the report.                                               *)
(***************************************************************************)
ErrorBeforeAnyOutput ==
  err = "KeyError" => out = << >>

(***************************************************************************)
(* C8, amended.  A dataset with a missing field is not checked at startup: *)
(* the KeyError is raised inside the category loop, after the four title   *)
(* lines (rule, title, rule, empty line), the banners and data lines of    *)
(* the categories before, the banner of the failing category and the data  *)
(* lines of the profiles before the failing one have been written.         *)
(***************************************************************************)
ErrorAfterTitleAndBanner ==
  err = "KeyError" =>
    /\ Len(out) >= 8
    /\ SubSeq(out, 1, 4) = << Literal(11), Literal(12), Literal(13), Literal(14) >>
    /\ Len(out) = 4 + (ci - 1) * (4 + Len(input.dataset)) + 4 + (pi - 1)
    /\ Len(At(out, 127)) = ci

ErrorAfterTitleAndBannerWitness ==
  /\ err = "KeyError"
  /\ ci = 1 /\ pi = 1
  /\ Len(out) = 8

(***************************************************************************)
(* C9.  As claimed: with no profiles every render operation returns        *)
(* without error and writes no data line.  The table with a non-empty      *)
(* Feature list and empty profile columns raises an IndexError.            *)
(***************************************************************************)
NoProfiles ==
  \/ InComprehensive /\ input.dataset = << >>
  \/ /\ InTable
     /\ input.table["Loom (Entropica Labs)"] = << >>
     /\ input.table["Deltakit (Riverlane)"] = << >>

EmptyNeverFails ==
  (NoProfiles /\ pc = 0) => err = "" /\ Rows = << >> /\ TableRows = << >>

(***************************************************************************)
(* C9, amended.  With an empty profile mapping the category loop returns   *)
(* without error and writes the banner of every category (five on the      *)
(* list of line 125) with no data line.  The rows of the table are the     *)
(* entries of the Feature list: with an empty Feature list the table       *)
(* writes its header and separator with no row and returns; with a         *)
(* non-empty Feature list and empty profile columns it raises an           *)
(* IndexError at the first row, after the header and separator.            *)
(***************************************************************************)
EmptyProfilesOrFeatures ==
  /\ (InComprehensive /\ input.dataset = << >> /\ pc = 0) =>
        /\ err = ""
        /\ Rows = << >>
        /\ input.categories = Categories =>
             /\ Texts(At(CurSeg, 127)) =
                  << "TYPE", "PRIMARY FOCUS", "UNIQUE STRENGTH", "BEST FOR",
                     "BACKEND/LAYER" >>
             /\ \A k \in 1..5 : \A m \in 1..4 : CurSeg[4 + 4 * (k - 1) + m].at \in 126..128
             /\ CurSeg[25].at = 132
  /\ (InTable /\ input.table["Feature"] = << >> /\ pc = 0) =>
        /\ err = ""
        /\ [k \in 1..Len(CurSeg) |-> CurSeg[k].at] = << 237, 238, 239, 293, 293, 294, 301 >>
  /\ (InTable /\ input.table["Feature"] # << >> /\ pc = 0
        /\ input.table["Loom (Entropica Labs)"] = << >>
        /\ input.table["Deltakit (Riverlane)"] = << >>) =>
        /\ err = "IndexError"
        /\ [k \in 1..Len(out) |-> out[k].at] = << 237, 238, 239, 293, 293, 294 >>

EmptyProfilesOrFeaturesWitness ==
  /\ InComprehensive
  /\ input.dataset = << >>
  /\ input.categories = Categories
  /\ Returned
  /\ Len(At(CurSeg, 127)) = 5

(***************************************************************************)
(* C10.  As claimed: once the scenario guide is written, each of the eight *)
(* scenarios has both a best choice and an alternative.  Scenarios 2, 5, 7 *)
(* and 8 of the literal do not.                                            *)
(***************************************************************************)
Guide == At(CurSeg, 216)

ScenarioLabels ==
  << "SCENARIO 1", "SCENARIO 2", "SCENARIO 3", "SCENARIO 4", "SCENARIO 5",
     "SCENARIO 6", "SCENARIO 7", "SCENARIO 8" >>

\* where scenario n starts in the guide, and where it ends
ScenarioStart(n) ==
  CHOOSE k \in 1..Len(Guide) : Guide[k].kind = "scenario" /\ Guide[k].label = ScenarioLabels[n]
ScenarioEnd(n) ==
  IF n < Len(ScenarioLabels) THEN ScenarioStart(n + 1) - 1 ELSE Len(Guide)

\* the headings under scenario n, in order
Headings(n) ==
  LET block == SubSeq(Guide, ScenarioStart(n) + 1, ScenarioEnd(n))
      heads == SelectSeq(block, LAMBDA e : e.kind = "heading")
  IN  [k \in 1..Len(heads) |-> heads[k].label]

AlternativeLabels == { "ALSO CONSIDER", "HIGH-LEVEL WRAPPER", "CLOUD ALTERNATIVE" }

HasBestChoice(n) == \E k \in 1..Len(Headings(n)) : Headings(n)[k] = "BEST CHOICE"
HasAlternative(n) == \E k \in 1..Len(Headings(n)) : Headings(n)[k] \in AlternativeLabels

GuideWritten == InComprehensive /\ Guide # << >>

BestAndAlternativeEverywhere ==
  GuideWritten => \A n \in 1..8 : HasBestChoice(n) /\ HasAlternative(n)

(***************************************************************************)
(* C10, amended.  Once the scenario guide is written it holds the eight    *)
(* scenarios 1..8 in order, each with one leading recommendation: a best   *)
(* choice for scenarios 1 to 6, a stack approach for 7 and a toolkit       *)
(* approach for 8.  An alternative follows the best choice only in         *)
(* scenarios 1, 3, 4 and 6; scenario 2 states that there is no             *)
(* alternative and scenarios 5, 7 and 8 have no second heading.            *)
(***************************************************************************)
RecommendationPerScenario ==
  GuideWritten =>
    /\ LET starts == SelectSeq(Guide, LAMBDA e : e.kind = "scenario")
       IN  [k \in 1..Len(starts) |-> starts[k].label] = ScenarioLabels
    /\ Headings(1) = << "BEST CHOICE", "ALSO CONSIDER" >>
    /\ Headings(2) = << "BEST CHOICE", "NO ALTERNATIVE" >>
    /\ Headings(3) = << "BEST CHOICE", "HIGH-LEVEL WRAPPER" >>
    /\ Headings(4) = << "BEST CHOICE", "CLOUD ALTERNATIVE" >>
    /\ Headings(5) = << "BEST CHOICE" >>
    /\ Headings(6) = << "BEST CHOICE", "ALSO CONSIDER" >>
    /\ Headings(7) = << "STACK APPROACH" >>
    /\ Headings(8) = << "TOOLKIT APPROACH" >>
    /\ \A n \in 1..8 : HasBestChoice(n) <=> n <= 6
    /\ \A n \in 1..8 : HasAlternative(n) <=> n \in { 1, 3, 4, 6 }

RecommendationPerScenarioWitness ==
  /\ GuideWritten
  /\ Returned
  /\ Len(Guide) = Len(ScenarioGuide)
  /\ Headings(5) = << "BEST CHOICE" >>

(***************************************************************************)
(* C11.  Schema of the dataset: the dict bound at line 16 from the literal *)
(* holds seven profiles and every one of them supplies exactly the same    *)
(* thirteen fields, Developer, Type, Primary Focus, Language, License,     *)
(* Launch Date, Unique Strength, Integration, Best For, Installation,      *)
(* Documentation, Community, Backend/Layer, so that every category of the  *)
(* category loop is a key of every profile.                                *)
(***************************************************************************)
FieldSet ==
  { "Developer", "Type", "Primary Focus", "Language", "License", "Launch Date",
    "Unique Strength", "Integration", "Best For", "Installation",
    "Documentation", "Community", "Backend/Layer" }

\* line 16 has bound the dict of the literal in this invocation
LiteralBound ==
  /\ InComprehensive
  /\ input.dataset = Profiles
  /\ input.categories = Categories
  /\ pc = 0 \/ (pc >= 125 /\ pc < 371)

SameFieldSet ==
  LiteralBound =>
    /\ Len(frameworks) = 7
    /\ Cardinality(FieldSet) = 13
    /\ \A p \in 1..Len(frameworks) : DOMAIN frameworks[p].details = FieldSet
    /\ \A c \in 1..Len(input.categories) : \A p \in 1..Len(frameworks) :
         input.categories[c] \in DOMAIN frameworks[p].details

SameFieldSetWitness ==
  /\ LiteralBound
  /\ input.fn = "__main__"
  /\ pc = 130
  /\ ci = 5 /\ pi = 7

(***************************************************************************)
(* C12.  The sections of qec_framework_comparison.main come out in program *)
(* order on the one stream: title box, Loom example, Deltakit example,     *)
(* feature comparison table, detailed analysis, summary, links.  At every  *)
(* moment the lines written so far are sorted by section, so no line of a  *)
(* section lies between the lines of another, and when main has returned   *)
(* each section is there once, opened by its first statement.              *)
(***************************************************************************)
InMain == input.script = "comparison" /\ input.fn \in { "main", "__main__" }

\* the section a line belongs to, by the statement that wrote it
SectionOf(n) ==
  CASE n \in 413..420 -> 1
    [] n \in 23..109  -> 2
    [] n \in 126..228 -> 3
    [] n \in 237..301 -> 4
    [] n \in 311..404 -> 5
    [] n \in 431..457 -> 6
    [] n \in 459..462 -> 7

\* the place of the first line of section s
FirstOf(s) == CHOOSE k \in 1..Len(CurSeg) :
                /\ SectionOf(CurSeg[k].at) = s
                /\ \A j \in 1..(k - 1) : SectionOf(CurSeg[j].at) # s

SectionsInProgramOrder ==
  InMain =>
    /\ \A k \in 1..(Len(CurSeg) - 1) :
         SectionOf(CurSeg[k].at) <= SectionOf(CurSeg[k + 1].at)
    /\ Returned =>
         /\ { SectionOf(CurSeg[k].at) : k \in 1..Len(CurSeg) } = 1..7
         /\ [s \in 1..7 |-> CurSeg[FirstOf(s)].at]
              = << 413, 23, 126, 237, 311, 431, 459 >>
         /\ CurSeg[Len(CurSeg)].at = 462

SectionsInProgramOrderWitness ==
  /\ InMain
  /\ input.fn = "__main__"
  /\ Returned
  /\ Len(At(CurSeg, 299)) = 14
  /\ Len(At(CurSeg, 109)) = 1 /\ Len(At(CurSeg, 228)) = 1

(***************************************************************************)
(* C13.  Rendering mutates nothing.  From its binding at line 16 to the    *)
(* end of the invocation the frameworks dict equals the literal it was     *)
(* built from, and so does the comparison dict from line 241 on; nothing   *)
(* survives the call: an invocation finds both names unbound and the loop  *)
(* counters at their start until it binds them itself.                     *)
(***************************************************************************)
\* the invocation in progress is before, or after, its binding statement
BeforeBinding ==
  \/ InComprehensive /\ pc \in { 371, 11, 12, 13, 14, 16 }
  \/ InTable /\ pc \in { 237, 238, 239, 241 }
AfterBinding ==
  \/ InComprehensive /\ (pc = 0 \/ pc \in 125..367)
  \/ InTable /\ (pc = 0 \/ pc \in 293..301)
  \/ InMain /\ pc \in 293..301

NothingMutated ==
  /\ (InComprehensive /\ AfterBinding) => frameworks = input.dataset
  /\ (input.script = "comparison" /\ AfterBinding) => comparison = input.table
  /\ BeforeBinding =>
       /\ frameworks = Unbound /\ comparison = Unbound
       /\ ci = 0 /\ pi = 0 /\ i = 0

NothingMutatedWitness ==
  /\ InComprehensive
  /\ input.dataset = Profiles
  /\ run = 2
  /\ Len(At(Seg(1), 130)) = 35
  /\ pc = 16
  /\ frameworks = Unbound

(***************************************************************************)
(* C14.  As claimed: every handler of the four files catches ImportError   *)
(* and belongs to qec_framework_comparison.py, and no other handler is     *)
(* ever entered.  loom_getting_started.py:470 catches Exception, and its   *)
(* handler runs when a call of example_repetition_code raises.             *)
(***************************************************************************)
Scripts == { "expanded", "comparison", "loom", "deltakit" }

\* a statement of a handler is about to run, or has written a line
InHandler == pc \in HandlerLines(input.script)
HandlerOutput == SelectSeq(out, LAMBDA e : e.at \in HandlerLines(input.script))

OnlyImportErrorHandlers ==
  /\ \A h \in Handlers(input.script) : h.catches = "ImportError"
  /\ InHandler => input.script = "comparison"
  /\ HandlerOutput # << >> => input.script = "comparison"

(***************************************************************************)
(* C14, amended.  The four files hold three handlers:                      *)
(* qec_framework_comparison.py has the two `except ImportError` of         *)
(* loom_example and deltakit_example, loom_getting_started.py has          *)
(* `except Exception` around the call of example_repetition_code, and the  *)
(* other two files have none.  Only the handler of loom_getting_started.py *)
(* is ever entered: it catches whatever the call raises, writes "Note: "   *)
(* and the message of the exception, then the line that asks for Loom to   *)
(* be installed, and the script goes on at line 474; the only exception    *)
(* that leaves that script uncaught is the one of a module-level import.   *)
(***************************************************************************)
HandlersOfTheSources ==
  /\ { s \in Scripts : Handlers(s) # { } } = { "comparison", "loom" }
  /\ { << h.except, h.catches >> : h \in Handlers("comparison") }
       = { << 105, "ImportError" >>, << 224, "ImportError" >> }
  /\ { << h.except, h.catches >> : h \in Handlers("loom") }
       = { << 470, "Exception" >> }
  /\ (InHandler \/ HandlerOutput # << >>) => input.script = "loom"
  /\ input.script = "loom" =>
       /\ err \in { "", "ImportError" }
       /\ pc = 471 => exc \in ExcMessages /\ stack = << >> /\ HandlerOutput = << >>
       /\ pc = 472 => HandlerOutput = << Line(471, "Note: " \o exc) >>
       /\ (HandlerOutput # << >> /\ pc # 472) =>
            /\ Len(HandlerOutput) = 2
            /\ HandlerOutput[1].at = 471 /\ HandlerOutput[1].s \in { "Note: e1", "Note: e2" }
            /\ HandlerOutput[2] = Literal(472)
            /\ \A k \in 1..Len(out) :
                 out[k].at = 472 =>
                   IF k < Len(out) THEN out[k + 1].at = 474 ELSE pc = 474

HandlersOfTheSourcesWitness ==
  /\ input.script = "loom"
  /\ pc = 0 /\ err = ""
  /\ Len(HandlerOutput) = 2
  /\ Len(At(out, 46)) = 0 /\ Len(At(out, 56)) = 1 /\ Len(At(out, 58)) = 0

(***************************************************************************)
(* C15.  The column widths are the constants 15 (name of the category      *)
(* listing) and 30, 40, 40 (feature table), and they are minimums: every   *)
(* data line is one line of the stream and holds each value in full, a     *)
(* shorter value followed by spaces up to the width and a longer one by    *)
(* none, so that a table row with a value longer than its column is longer *)
(* than the header.                                                        *)
(***************************************************************************)
Max(a, b) == IF a >= b THEN a ELSE b

WidthsAreMinimums ==
  /\ NameWidth = 15 /\ FeatureWidth = 30 /\ ValueWidth = 40
  /\ InComprehensive =>
       \A k \in 1..Len(Rows) :
         LET n  == Len(input.dataset)
             nm == input.dataset[((k - 1) % n) + 1].name
             v  == input.dataset[((k - 1) % n) + 1].details[input.categories[((k - 1) \div n) + 1]]
         IN  /\ Rows[k].s = nm \o Spaces(15 - Len(nm)) \o " | " \o v
             /\ Len(Rows[k].s) = Max(Len(nm), 15) + 3 + Len(v)
  /\ (input.script = "comparison" /\ Len(TableRows) > 0) =>
       /\ Len(HeaderLines) = 1
       /\ Len(HeaderLines[1].s) = 30 + 3 + 40 + 3 + 40
       /\ \A k \in 1..Len(TableRows) :
            LET F == input.table["Feature"][k]
                L == input.table["Loom (Entropica Labs)"][k]
                D == input.table["Deltakit (Riverlane)"][k]
            IN  /\ TableRows[k].s = F \o Spaces(30 - Len(F)) \o " | "
                                      \o L \o Spaces(40 - Len(L)) \o " | "
                                      \o D \o Spaces(40 - Len(D))
                /\ Len(TableRows[k].s)
                     = Max(Len(F), 30) + 3 + Max(Len(L), 40) + 3 + Max(Len(D), 40)
                /\ (Len(F) > 30 \/ Len(L) > 40 \/ Len(D) > 40)
                     <=> Len(TableRows[k].s) > Len(HeaderLines[1].s)

WidthsAreMinimumsWitness ==
  /\ TableDone
  /\ input.table = Comparison
  /\ Len(TableRows) = 14
  /\ Len(input.table["Loom (Entropica Labs)"][14]) = 47
  /\ Len(TableRows[14].s) = 30 + 3 + 47 + 3 + 45
  /\ Len(TableRows[14].s) > Len(HeaderLines[1].s)

\* a name longer than its column has been written by the category loop
LongNameWritten ==
  /\ InComprehensive
  /\ Len(input.dataset) >= 2
  /\ Len(input.dataset[2].name) > 15
  /\ Len(Rows) >= 2
  /\ Rows[2].s = "Deltakit (Riverlane) | SDK + Learning platform"

(***************************************************************************)
(* C16.  The category loop is one category-major pass whose course is      *)
(* fixed by the literals.  At every moment the lines it has written are a  *)
(* prefix of: for each category of the list in order, an empty line and a  *)
(* rule, the category name in upper case, a rule, then one line per        *)
(* profile in insertion order.  So the banner of a category comes before   *)
(* all of its profile lines and no profile line of a category comes after  *)
(* the banner of the next one.                                             *)
(***************************************************************************)
LoopLines == SelectSeq(CurSeg, LAMBDA e : e.at \in 126..130)

UpperNames ==
  "Type" :> "TYPE" @@ "Primary Focus" :> "PRIMARY FOCUS" @@
  "Unique Strength" :> "UNIQUE STRENGTH" @@ "Best For" :> "BEST FOR" @@
  "Backend/Layer" :> "BACKEND/LAYER"

CategoryMajorPass ==
  InComprehensive =>
    LET n    == Len(input.dataset)
        cs   == input.categories
        size == 4 + n
    IN  /\ Len(LoopLines) <= Len(cs) * size
        /\ \A j \in 1..Len(LoopLines) :
             LET c == ((j - 1) \div size) + 1
                 k == ((j - 1) % size) + 1
                 e == LoopLines[j]
             IN  CASE k = 1 -> e.at = 126 /\ e.s = ""
                   [] k = 2 -> e.at = 126 /\ Len(e.s) = 100
                   [] k = 3 -> e.at = 127 /\ e.s = UpperNames[cs[c]]
                   [] k = 4 -> e.at = 128 /\ Len(e.s) = 100
                   [] OTHER -> /\ e.at = 130
                               /\ e.s = input.dataset[k - 4].name
                                          \o Spaces(15 - Len(input.dataset[k - 4].name))
                                          \o " | " \o input.dataset[k - 4].details[cs[c]]
        /\ (pc \in 126..128 \/ (pc = 125 /\ ci > 0)) =>
             Len(Rows) = (IF pc = 125 THEN ci ELSE ci - 1) * n

CategoryMajorPassWitness ==
  /\ InComprehensive
  /\ input.dataset = Profiles /\ input.categories = Categories
  /\ pc = 130 /\ ci = 3 /\ pi = 1
  /\ Len(Rows) = 14
  /\ LoopLines[Len(LoopLines)].at = 128

(***************************************************************************)
(* C17.  The scenario recommendations do not depend on the profile data.   *)
(* Whatever dataset the category loop has run on, the section the          *)
(* invocation writes at lines 213-216 is the same sequence of lines: the   *)
(* three lines of the heading and the lines of the literal of line 216,    *)
(* no part of which is read from a profile.                                *)
(***************************************************************************)
ScenarioSection == SelectSeq(CurSeg, LAMBDA e : e.at \in 213..216)

\* the section has been written in this invocation
SectionWritten == InComprehensive /\ err = "" /\ (pc = 0 \/ pc \in 294..367)

\* the section as the source spells it
SectionOfTheSource ==
  << Literal(213), Literal(214), Literal(215) >> \o
  [k \in 1..Len(ScenarioGuide) |->
     [at |-> 216, kind |-> ScenarioGuide[k][1], label |-> ScenarioGuide[k][2],
      s |-> ScenarioGuide[k][3]]]

SameGuideForEveryDataset ==
  /\ SectionWritten => ScenarioSection = SectionOfTheSource
  /\ InComprehensive =>
       \A r \in 1..(run - 1) :
         SelectSeq(Seg(r), LAMBDA e : e.at \in 213..216) = SectionOfTheSource

SameGuideForEveryDatasetWitness ==
  /\ SectionWritten
  /\ pc = 0
  /\ input.dataset = SubSeq(Profiles, 1, 3)
  /\ input.categories = << "Type" >>
  /\ Len(Rows) = 3
  /\ Len(ScenarioSection) = 3 + Len(ScenarioGuide)

(***************************************************************************)
(* C18.  As claimed: a script run as the entry point never comes to a      *)
(* statement that imports from, or calls into, an external package.  The   *)
(* first statement loom_getting_started.py and deltakit_getting_started.py *)
(* run is such an import, and their __main__ blocks call functions that    *)
(* call into the package.                                                  *)
(***************************************************************************)
\* the next statement imports from, or calls into, an external package
AtExternal ==
  pc \in DOMAIN Imports(input.script) \cup ExternalCalls(input.script)

NoCollaborators ==
  input.fn = "__main__" => ~AtExternal

(***************************************************************************)
(* C18, amended.  The two comparison scripts have no collaborators: they   *)
(* hold no import and no call into an external package and never end with  *)
(* an exception of one.  The two getting-started scripts do: a run of      *)
(* loom_getting_started.py that has come to its end has imported loom and  *)
(* numpy and has called into loom at line 43, which either raised into the *)
(* handler or led on to the reads of lines 56-58; a run of                 *)
(* deltakit_getting_started.py that has come to its end has imported       *)
(* deltakit and has called RepetitionCode and SurfaceCode at lines 557 and *)
(* 563 before writing the lines that follow them.                          *)
(***************************************************************************)
CollaboratorsOfGettingStarted ==
  /\ input.script \in { "expanded", "comparison" } =>
       /\ DOMAIN Imports(input.script) = { }
       /\ ExternalCalls(input.script) = { }
       /\ ~AtExternal
       /\ err \notin { "ImportError", "Exception" }
  /\ (input.script = "loom" /\ pc = 0 /\ err = "") =>
       /\ { "loom", "numpy" } \subseteq input.env
       /\ Len(At(out, 471)) + Len(At(out, 58)) = 1
       /\ Len(At(out, 507)) = 1
  /\ (input.script = "deltakit" /\ pc = 0 /\ err = "") =>
       /\ "deltakit" \in input.env
       /\ \E j, k \in 1..Len(out) :
            /\ j < k
            /\ out[j].at = 556 /\ out[j + 1].at = 559
            /\ out[k].at = 562 /\ out[k + 1].at = 565
       /\ Len(At(out, 639)) = 1
  /\ (input.script \in { "loom", "deltakit" } /\ out # << >>) =>
       \A l \in DOMAIN Imports(input.script) : Imports(input.script)[l] \in input.env

CollaboratorsOfGettingStartedWitness ==
  /\ input.script = "deltakit"
  /\ pc = 0 /\ err = ""
  /\ "deltakit" \in input.env
  /\ Len(At(out, 565)) = 1
  /\ Len(At(out, 639)) = 1

(***************************************************************************)
(* C19.  In qec_framework_comparison.py the handlers of loom_example and   *)
(* deltakit_example are never entered: the try blocks only print literals. *)
(* No line of lines 106-107 or 225-226 is ever written, and whenever the   *)
(* closing rule of an example is written, the section before it is         *)
(* complete, ending with the heading of the key features and every one of  *)
(* its items (six for Loom, seven for Deltakit).                           *)
(***************************************************************************)
InExamples ==
  /\ input.script = "comparison"
  /\ input.fn \in { "loom_example", "deltakit_example", "main", "__main__" }

\* the statements that wrote the lines of q, in order
Ats(q) == [k \in 1..Len(q) |-> q[k].at]

LoomSection == SelectSeq(CurSeg, LAMBDA e : e.at \in 23..109)
DeltakitSection == SelectSeq(CurSeg, LAMBDA e : e.at \in 126..228)

ExamplesAlwaysComplete ==
  InExamples =>
    /\ pc \notin { 106, 107, 225, 226 }
    /\ \A k \in 1..Len(out) : out[k].at \notin { 106, 107, 225, 226 }
    /\ err = ""
    /\ Len(At(CurSeg, 109)) <= 1 /\ Len(At(CurSeg, 228)) <= 1
    /\ Len(At(CurSeg, 109)) = 1 =>
         /\ Len(LoomSection) = 29
         /\ Ats(LoomSection)[1] = 23
         /\ Ats(SubSeq(LoomSection, 22, 29)) = << 97, 98, 99, 100, 101, 102, 103, 109 >>
    /\ Len(At(CurSeg, 228)) = 1 =>
         /\ Len(DeltakitSection) = 33
         /\ Ats(DeltakitSection)[1] = 126
         /\ Ats(SubSeq(DeltakitSection, 24, 33))
              = << 213, 215, 216, 217, 218, 219, 220, 221, 222, 228 >>
    /\ (Returned /\ input.fn # "deltakit_example") => Len(At(CurSeg, 109)) = 1
    /\ (Returned /\ input.fn # "loom_example") => Len(At(CurSeg, 228)) = 1

ExamplesAlwaysCompleteWitness ==
  /\ InExamples
  /\ input.fn = "loom_example"
  /\ run = 2 /\ Returned
  /\ Len(LoomSection) = 29
  /\ Len(At(Seg(1), 103)) = 1

(***************************************************************************)
(* C20.  In loom_getting_started.py and deltakit_getting_started.py every  *)
(* module-level import comes before the __main__ block and outside any     *)
(* try.  While an import is still to run nothing has been written; the     *)
(* first line written is the title rule, and it is written only if every   *)
(* package could be imported; a failing import ends the run at once, with  *)
(* the exception uncaught and no line written.                             *)
(***************************************************************************)
InGettingStarted == input.script \in { "loom", "deltakit" }

\* the packages the module-level imports of the script need
Needed == { Imports(input.script)[l] : l \in DOMAIN Imports(input.script) }

\* the first statement of the __main__ block
TitleRule == IF input.script = "loom" THEN 463 ELSE 584

ImportsBeforeReport ==
  InGettingStarted =>
    /\ Needed = (IF input.script = "loom" THEN { "loom", "numpy" } ELSE { "deltakit" })
    /\ \A l \in DOMAIN Imports(input.script) :
         /\ l < TitleRule
         /\ \A h \in Handlers(input.script) : l < h.try
    /\ pc \in DOMAIN Imports(input.script) => out = << >> /\ err = ""
    /\ out # << >> => Needed \subseteq input.env /\ out[1].at = TitleRule
    /\ ~(Needed \subseteq input.env) => out = << >>
    /\ err = "ImportError" =>
         /\ pc = 0 /\ stack = << >> /\ out = << >>
         /\ ~(Needed \subseteq input.env)
         /\ ExitStatus = 1
    /\ (pc = 0 /\ ~(Needed \subseteq input.env)) => err = "ImportError"

ImportsBeforeReportWitness ==
  /\ input.script = "loom"
  /\ input.env = { "loom" }
  /\ err = "ImportError"
  /\ pc = 0
  /\ out = << >>

(***************************************************************************)
(* C21.  In loom_getting_started.py an exception that                      *)
(* example_repetition_code raises is caught by the handler of line 470:    *)
(* "Note: " with the message of the exception and the install hint are     *)
(* written, nothing of the function is written after the raise, and the    *)
(* script goes on: the headings and descriptions of Examples 2 to 7, the   *)
(* heading and the lines of Example 8, Examples 9 and 10 and the footer    *)
(* follow in this order, and the run ends with exit status 0.              *)
(***************************************************************************)
\* the handler of line 470 has run in this run
Caught == input.script = "loom" /\ Len(At(out, 472)) = 1

\* where the install hint is in the stream
HintAt == CHOOSE k \in 1..Len(out) : out[k].at = 472

\* the statements that write what follows the handler, in program order
AfterHandler ==
  << 474, 475, 477, 478, 480, 481, 483, 484, 486, 487, 489, 490,
     492, 358, 359, 360, 361, 362, 363,
     495, 496, 498, 499, 501, 502, 503, 504, 505, 506, 507 >>

CaughtAndContinued ==
  /\ (input.script = "loom" /\ (pc = 471 \/ pc = 472)) =>
       /\ exc \in ExcMessages
       /\ out[Len(out)].at \in { 467, 56, 57, 471 }
  /\ Caught =>
       /\ err = ""
       /\ out[HintAt - 1].at = 471
       /\ out[HintAt - 1].s \in { "Note: " \o m : m \in ExcMessages }
       /\ out[HintAt - 2].at \in { 467, 56, 57 }
       /\ Len(At(out, 58)) = 0
       /\ LET rest == Ats(SubSeq(out, HintAt + 1, Len(out)))
          IN  /\ Len(rest) <= Len(AfterHandler)
              /\ rest = SubSeq(AfterHandler, 1, Len(rest))
              /\ pc = 0 => rest = AfterHandler /\ ExitStatus = 0

CaughtAndContinuedWitness ==
  /\ Caught
  /\ pc = 0
  /\ Len(At(out, 57)) = 1
  /\ out[HintAt - 1].s = "Note: e2"
  /\ out[Len(out)].at = 507

(***************************************************************************)
(* C22.  As claimed: the entry points call only example_repetition_code    *)
(* and example_entwine_integration (loom_getting_started.py) and           *)
(* example_textbook_workflow (deltakit_getting_started.py), and every      *)
(* other example is its heading followed by one line of description.       *)
(* Example 5 of deltakit_getting_started.py has four lines after its       *)
(* heading.                                                                *)
(***************************************************************************)
\* the functions the __main__ block of the script calls
Called ==
  IF input.script = "loom"
  THEN { "example_repetition_code", "example_entwine_integration" }
  ELSE { "example_textbook_workflow" }

\* the functions whose def holds line l
Enclosing(l) ==
  { f \in DOMAIN Functions(input.script) :
      l >= Functions(input.script)[f][1] /\ l <= Functions(input.script)[f][2] }

\* the headings of the examples whose function is not called
OtherHeadings ==
  IF input.script = "loom" THEN { 474, 477, 480, 483, 486, 489, 495, 498 }
  ELSE { 588, 591, 594, 597, 600, 606, 609, 612, 615, 618, 621, 624 }

\* the script has run to its end
RanToEnd == InGettingStarted /\ pc = 0 /\ err = ""

Pos(n) == CHOOSE k \in 1..Len(out) : out[k].at = n

\* the statements that wrote the lines between heading number k and the next
UnderHeading(k) ==
  LET hs == ExampleHeadings(input.script)
  IN  Ats(SubSeq(out, Pos(hs[k]) + 1, Pos(hs[k + 1]) - 1))

OnlyCalledFunctionsRun ==
  InGettingStarted =>
    /\ pc # 0 => Enclosing(pc) \subseteq Called
    /\ \A k \in 1..Len(out) : Enclosing(out[k].at) \subseteq Called

HeadingAndOneLine ==
  /\ OnlyCalledFunctionsRun
  /\ RanToEnd =>
       \A k \in 1..(Len(ExampleHeadings(input.script)) - 1) :
         ExampleHeadings(input.script)[k] \in OtherHeadings =>
           UnderHeading(k) = << ExampleHeadings(input.script)[k] + 1 >>

(***************************************************************************)
(* C22, amended.  No statement of a function other than                    *)
(* example_repetition_code and example_entwine_integration (Examples 1 and *)
(* 8 of loom_getting_started.py) and example_textbook_workflow (Example 13 *)
(* of deltakit_getting_started.py) is ever run.  When a script has run to  *)
(* its end, Example 8, respectively Example 13, has its heading and the    *)
(* lines of its function, and every other example has its heading and one  *)
(* line of description, except Example 5 of deltakit_getting_started.py,   *)
(* whose description is followed by three lines, one per decoder.          *)
(***************************************************************************)
FixedSubsetOfExamples ==
  /\ OnlyCalledFunctionsRun
  /\ RanToEnd =>
       /\ \A k \in 1..(Len(ExampleHeadings(input.script)) - 1) :
            LET h == ExampleHeadings(input.script)[k]
            IN  h \in OtherHeadings =>
                  UnderHeading(k) = (IF input.script = "deltakit" /\ h = 600
                                     THEN << 601, 602, 603, 604 >>
                                     ELSE << h + 1 >>)
       /\ input.script = "loom" =>
            /\ UnderHeading(8) = << 358, 359, 360, 361, 362, 363 >>
            /\ UnderHeading(1) \in { << 56, 57, 58 >>, << 471, 472 >>,
                                     << 56, 471, 472 >>, << 56, 57, 471, 472 >> }
       /\ input.script = "deltakit" =>
            UnderHeading(13) = << 546, 548, 549, 550, 551, 553, 554, 555, 556,
                                  559, 560, 561, 562, 565, 566, 567, 568, 570, 571 >>

FixedSubsetOfExamplesWitness ==
  /\ RanToEnd
  /\ input.script = "deltakit"
  /\ UnderHeading(5) = << 601, 602, 603, 604 >>
  /\ Len(UnderHeading(13)) = 19

(***************************************************************************)
(* C23.  On the literal of lines 241-290 the three lists of `comparison`   *)
(* have the same length, 14.  print_comparison_table therefore never reads *)
(* an index out of range: it ends without an exception after writing 14    *)
(* data rows, row k holding entry k of the Feature list, of the Loom list  *)
(* and of the Deltakit list, so that every value of the three lists is     *)
(* written, the first row being that of License and the last that of Best  *)
(* For.                                                                    *)
(***************************************************************************)
\* the table of the source is being printed, alone or from main
OnLiteralTable ==
  /\ input.script = "comparison"
  /\ input.fn \in { "print_comparison_table", "main", "__main__" }
  /\ input.table = Comparison

LiteralTableRowPerFeature ==
  OnLiteralTable =>
    /\ err = ""
    /\ comparison # Unbound =>
         /\ Len(comparison["Feature"]) = 14
         /\ Len(comparison["Loom (Entropica Labs)"]) = 14
         /\ Len(comparison["Deltakit (Riverlane)"]) = 14
    /\ Len(TableRows) <= 14
    /\ pc \in { 297, 298, 299 } => i \in 1..14 /\ Len(TableRows) = i - 1
    /\ \A k \in 1..Len(TableRows) :
         TableRows[k].s = FeatureColumn[k] \o Spaces(30 - Len(FeatureColumn[k])) \o " | "
                            \o LoomColumn[k] \o Spaces(40 - Len(LoomColumn[k])) \o " | "
                            \o DeltakitColumn[k] \o Spaces(40 - Len(DeltakitColumn[k]))
    /\ TableDone =>
         /\ Len(TableRows) = 14
         /\ TableRows[1].s = "License                        | Open-source                              | Open-source SDK + proprietary cloud     "
         /\ TableRows[14].s = "Best For                       | Research, prototyping, education, visual design | Learning QEC, production deployment, hardware"

LiteralTableRowPerFeatureWitness ==
  /\ OnLiteralTable
  /\ input.fn = "main"
  /\ pc = 299 /\ i = 14
  /\ Len(TableRows) = 13
  /\ delta_val = "Learning QEC, production deployment, hardware"

(***************************************************************************)
(* The example functions: vocabulary.                                      *)
(***************************************************************************)
\* the calls of callable `op`, in order
CallsOf(op) == SelectSeq(calls, LAMBDA c : c.op = op)

\* the position in `calls` of the k-th call of `op`
CallPos(op, k) ==
  CHOOSE p \in 1..Len(calls) :
    /\ calls[p].op = op
    /\ Cardinality({ q \in 1..p : calls[q].op = op }) = k

\* the operations made on the object of the local `circuit`, with their literals
CircuitOps(upto) ==
  LET on == SelectSeq(SubSeq(calls, 1, upto),
                      LAMBDA c : "circuit" \in DOMAIN refs /\ c.self = refs["circuit"])
  IN  [k \in 1..Len(on) |-> << on[k].op, on[k].lits >>]

\* the operation sequence of a memory experiment of n cycles
MemorySequence(n) ==
  << << "add_logical_initialization", "'Z'" >> >>
  \o [k \in 1..(IF n > 0 THEN n ELSE 0) |-> << "add_syndrome_measurement_round", "" >>]
  \o << << "add_logical_measurement", "'Z'" >> >>

IsPrefixOf(s, t) == Len(s) <= Len(t) /\ s = SubSeq(t, 1, Len(s))

\* C24: example_memory_experiment applies to the circuit one logical
\* initialization in 'Z', then num_cycles syndrome measurement rounds (none
\* when num_cycles <= 0), then one logical measurement in 'Z': at every moment
\* the operations made so far are a beginning of that sequence, the
\* Interpretation is created of that circuit once the whole sequence was
\* made, and on return the sequence is complete and nothing follows it.
MemoryExperimentSequence ==
  Fn = << "loom", "example_memory_experiment" >> =>
    /\ IsPrefixOf(CircuitOps(Len(calls)), MemorySequence(input.num_cycles))
    /\ \A p \in 1..Len(calls) :
         calls[p].op = "Interpretation" =>
           /\ CircuitOps(p - 1) = MemorySequence(input.num_cycles)
           /\ calls[p].objs = << refs["circuit"] >>
    /\ Len(CallsOf("Circuit")) <= 1
    /\ Returned =>
         /\ CircuitOps(Len(calls)) = MemorySequence(input.num_cycles)
         /\ Len(CallsOf("Interpretation")) = 1

\* example_memory_experiment(3) returned: three rounds between the
\* initialization and the measurement
MemoryExperimentSequenceWitness ==
  /\ Fn = << "loom", "example_memory_experiment" >>
  /\ input.num_cycles = 3
  /\ Returned
  /\ Len(CallsOf("add_syndrome_measurement_round")) = 3
  /\ CallPos("add_logical_initialization", 1) < CallPos("add_syndrome_measurement_round", 1)
  /\ CallPos("add_syndrome_measurement_round", 3) < CallPos("add_logical_measurement", 1)
  /\ CallPos("add_logical_measurement", 1) < CallPos("Interpretation", 1)

\* the object the call of constructor `op` returned
Made(op) == CallsOf(op)[1].ret

\* deltakit_getting_started.py:185-187 as the package sees them: the
\* constructor behind each key of `decoders`
DecoderMade ==
  "MWPM" :> << "Decoder", "'minimum_weight_perfect_matching'" >> @@
  "LCD" :> << "LCDDecoder", "" >> @@
  "BP-AC" :> << "BPACDecoder", "" >>

\* C25: example_decoding_comparison runs the experiment once per decoder, in
\* the order MWPM, LCD, BP-AC, every run on the one MemoryExperiment the
\* function creates and with the decoder object made for that key; noise is
\* added to that experiment once, before the first run; on return
\* results_comparison has the keys MWPM, LCD and BP-AC, each with the entries
\* logical_error_rate and decode_time of its run.
DecodingOnSharedExperiment ==
  Fn = << "deltakit", "example_decoding_comparison" >> =>
    LET runs   == CallsOf("run")
        noises == CallsOf("add_noise")
    IN  /\ Len(CallsOf("MemoryExperiment")) <= 1
        /\ Len(noises) <= 1
        /\ Len(runs) <= Len(DecoderNames)
        /\ \A k \in 1..Len(runs) :
             LET made == DecoderMade[DecoderNames[k]]
                 ctor == CallsOf(made[1])
             IN  /\ runs[k].self = Made("MemoryExperiment")
                 /\ Len(ctor) = 1
                 /\ ctor[1].lits = made[2]
                 /\ runs[k].objs = << ctor[1].ret >>
        /\ runs # << >> =>
             /\ Len(noises) = 1
             /\ noises[1].self = Made("MemoryExperiment")
             /\ noises[1].objs = << Made("NoiseModel") >>
             /\ CallPos("add_noise", 1) < CallPos("run", 1)
        /\ Returned =>
             /\ Len(runs) = Len(DecoderNames)
             /\ DOMAIN results_comparison = Range(DecoderNames)
             /\ \A k \in 1..Len(DecoderNames) :
                  LET entry == results_comparison[DecoderNames[k]]
                  IN  /\ DOMAIN entry = { "logical_error_rate", "decode_time" }
                      /\ entry.logical_error_rate = attrs[runs[k].ret].logical_error_rate
                      /\ entry.decode_time = attrs[runs[k].ret].decode_time_ms

\* example_decoding_comparison returned after three runs whose results differ
DecodingOnSharedExperimentWitness ==
  /\ Fn = << "deltakit", "example_decoding_comparison" >>
  /\ Returned
  /\ Len(CallsOf("run")) = 3
  /\ Len(CallsOf("add_noise")) = 1
  /\ DOMAIN results_comparison = { "MWPM", "LCD", "BP-AC" }
  /\ results_comparison["MWPM"].logical_error_rate # results_comparison["LCD"].logical_error_rate
  /\ results_comparison["LCD"].decode_time # results_comparison["BP-AC"].decode_time

\* the calls of `op` made on object `obj`, as positions in `calls`
CallsOn(op, obj) == { p \in 1..Len(calls) : calls[p].op = op /\ calls[p].self = obj }

\* C26: example_stability_experiment creates a new StabilityExperiment for
\* each of the five error rates, in the order of error_rates; the experiment
\* of a rate gets noise of that rate once, before its one run, and the
\* fidelity of that run is recorded under the rate; estimate_threshold is
\* called once, after the five runs, with the map of all five rates, on the
\* experiment created for the last rate.
StabilityFreshExperiments ==
  Fn = << "deltakit", "example_stability_experiment" >> =>
    LET exps   == CallsOf("StabilityExperiment")
        models == CallsOf("NoiseModel")
        runs   == CallsOf("run")
        ests   == CallsOf("estimate_threshold")
    IN  /\ Len(exps) <= Len(ErrorRates)
        /\ \A j, k \in 1..Len(exps) : j # k => exps[j].ret # exps[k].ret
        /\ \A k \in 1..Len(models) : models[k].num = ErrorRates[k]
        /\ \A k \in 1..Len(exps) :
             /\ Cardinality(CallsOn("add_noise", exps[k].ret)) <= 1
             /\ Cardinality(CallsOn("run", exps[k].ret)) <= 1
        /\ \A k \in 1..Len(runs) :
             /\ runs[k].self = exps[k].ret
             /\ \E p \in CallsOn("add_noise", exps[k].ret) :
                  /\ calls[p].objs = << models[k].ret >>
                  /\ CallPos("StabilityExperiment", k) < p
                  /\ p < CallPos("run", k)
        /\ \A r \in DOMAIN results_by_rate :
             \E k \in 1..Len(runs) :
               /\ ErrorRates[k] = r
               /\ results_by_rate[r] = attrs[runs[k].ret].logical_fidelity
        /\ Len(ests) <= 1
        /\ ests # << >> =>
             /\ Len(runs) = Len(ErrorRates)
             /\ CallPos("run", Len(ErrorRates)) < CallPos("estimate_threshold", 1)
             /\ DOMAIN ests[1].map = Range(ErrorRates)
             /\ Cardinality(DOMAIN ests[1].map) = 5
             /\ ests[1].map = results_by_rate
             /\ ests[1].self = exps[Len(ErrorRates)].ret
             /\ models[Len(ErrorRates)].num = 100
        /\ Returned => Len(ests) = 1 /\ DOMAIN results_by_rate = Range(ErrorRates)

\* example_stability_experiment returned: five experiments, five runs with
\* fidelities that differ, one estimate
StabilityFreshExperimentsWitness ==
  /\ Fn = << "deltakit", "example_stability_experiment" >>
  /\ Returned
  /\ Len(CallsOf("StabilityExperiment")) = 5
  /\ Len(CallsOf("run")) = 5
  /\ Len(CallsOf("estimate_threshold")) = 1
  /\ results_by_rate[1] # results_by_rate[100]
  /\ threshold \in ThresholdValues

=============================================================================
